---- MODULE Spec2Model ----
(***************************************************************************)
(* Model of the localization asset reconstruction engine                   *)
(* (webpack/localization-plugin/src/AssetProcessor.ts).                    *)
(*                                                                         *)
(* Text is a sequence of one-character symbols.  The fixed placeholder     *)
(* prefix Constants.STRING_PLACEHOLDER_PREFIX is the single symbol "P",    *)
(* which counts for PrefixLen characters in every length.                  *)
(***************************************************************************)
EXTENDS Integers, Sequences, FiniteSets, TLC

\* ------------------------------------------------------------------ bounds

\* Longest asset source, in pieces (a piece is a literal or a placeholder).
MaxPieces == 2
\* Most locales requested by one call.
MaxLocales == 2
\* Largest maxAttempts given to executeCommandWithRetry.
MaxAttemptsBound == 4
\* Largest maxWaitTimeMs given to retryUntilTimeout.
MaxWaitBound == 2
\* Most calls of fn between two advances of the clock.
MaxCallsPerTick == 2
\* Latest last-modified time of a file, and most input files of one call.
MaxMtime == 2
MaxInputs == 2
\* Most variables of an environment.
MaxVars == 3
\* Most pieces of the text of a .npmrc file.
MaxNpmrcPieces == 3

\* ------------------------------------------------------------------ text

\* Constants.STRING_PLACEHOLDER_PREFIX.length
PrefixLen == 54

\* The symbol standing for the placeholder prefix.
Prefix == "P"

Digits == {"0", "1", "2", "3", "4", "5", "6", "7", "8", "9"}

\* String.length of one symbol.
SymLen(c) == IF c = Prefix THEN PrefixLen ELSE 1

\* The number of characters the first n symbols of s stand for.
RECURSIVE CharsOf(_, _)
CharsOf(s, n) == IF n = 0 THEN 0 ELSE CharsOf(s, n - 1) + SymLen(s[n])

\* String.length
StrLen(s) == CharsOf(s, Len(s))

\* The character offset at which the symbol at (1-based) position i starts.
CharOffset(s, i) == CharsOf(s, i - 1)

\* Array.prototype.join('') over an array of strings.
RECURSIVE Join(_)
Join(parts) == IF parts = <<>> THEN <<>> ELSE Head(parts) \o Join(Tail(parts))

\* An optional value (a JavaScript value that may be undefined).
Undefined == [def |-> FALSE, v |-> <<>>]
Some(x) == [def |-> TRUE, v |-> x]

\* String.prototype.replace(/c/g, by): every occurrence of the character c.
RECURSIVE ReplaceAll(_, _, _)
ReplaceAll(s, c, by) ==
    IF s = <<>> THEN <<>>
    ELSE (IF Head(s) = c THEN by ELSE <<Head(s)>>) \o ReplaceAll(Tail(s), c, by)

QuoteEscape == <<"\\", "u", "0", "0", "2", "2">>
AposEscape == <<"\\", "u", "0", "0", "2", "7">>

\* Mutant: the apostrophe is not replaced.
EscapeQuotesOnly(s) == ReplaceAll(s, "\"", QuoteEscape)

\* The two replace calls of _reconstructLocalized.
EscapeQuotes(s) == ReplaceAll(ReplaceAll(s, "\"", QuoteEscape), "'", AposEscape)

\* JSON.stringify of a string.
RECURSIVE JsonChars(_)
JsonChars(s) ==
    IF s = <<>> THEN <<>>
    ELSE (IF Head(s) \in {"\"", "\\"} THEN <<"\\", Head(s)>> ELSE <<Head(s)>>)
         \o JsonChars(Tail(s))

JsonString(s) == <<"\"">> \o JsonChars(s) \o <<"\"">>

\* ------------------------------------------------------------------ PLACEHOLDER_REGEX

\* The end (exclusive) of the longest run of digits of s from position i on;
\* i itself when there is none.  (\d+ is greedy.)
RECURSIVE DigitsEnd(_, _)
DigitsEnd(s, i) ==
    IF i <= Len(s) /\ s[i] \in Digits THEN DigitsEnd(s, i + 1) ELSE i

\* The same for the characters other than "+".  ([^+]+ is greedy.)
RECURSIVE NotPlusEnd(_, _)
NotPlusEnd(s, i) ==
    IF i <= Len(s) /\ s[i] # "+" THEN NotPlusEnd(s, i + 1) ELSE i

NoMatch == [found |-> FALSE, start |-> 0, end |-> 0, label |-> "",
            token |-> Undefined, serial |-> <<>>]

\* The tail "_(\d+)" of the expression, tried at position j; e is the end of
\* the digits that start at j + 1.
MatchSerialTo(s, i, j, label, token, e) ==
    IF j <= Len(s) /\ s[j] = "_" /\ e > j + 1
    THEN [found |-> TRUE, start |-> i, end |-> e, label |-> label, token |-> token,
          serial |-> SubSeq(s, j + 1, e - 1)]
    ELSE NoMatch

MatchSerial(s, i, j, label, token) ==
    MatchSerialTo(s, i, j, label, token, DigitsEnd(s, j + 1))

FirstFound(m1, m2) == IF m1.found THEN m1 ELSE m2

\* The part "(\+[^+]+\+)?_(\d+)" at position j; k is the end of the run of
\* characters other than "+" that starts at j + 1.  The greedy [^+]+ can only
\* end at the next "+", so the group has at most one way to match; when the
\* tail fails after it, the expression backtracks to the empty group.
MatchToken(s, i, j, k) ==
    IF j <= Len(s) /\ s[j] = "+" /\ k > j + 1 /\ k <= Len(s) /\ s[k] = "+"
    THEN FirstFound(MatchSerial(s, i, k + 1, s[i + 2], Some(SubSeq(s, j, k))),
                    MatchSerial(s, i, j, s[i + 2], Undefined))
    ELSE MatchSerial(s, i, j, s[i + 2], Undefined)

\* An attempt of the whole expression  P_([A-C])(\+[^+]+\+)?_(\d+)  at position i.
MatchAt(s, i) ==
    IF i + 2 <= Len(s) /\ s[i] = Prefix /\ s[i + 1] = "_" /\ s[i + 2] \in {"A", "B", "C"}
    THEN MatchToken(s, i, i + 3, NotPlusEnd(s, i + 4))
    ELSE NoMatch

\* The leftmost match starting at a position >= i.
RECURSIVE FirstMatchFrom(_, _)
MatchOrNext(m, s, i) == IF m.found THEN m ELSE FirstMatchFrom(s, i + 1)
FirstMatchFrom(s, i) == IF i > Len(s) THEN NoMatch ELSE MatchOrNext(MatchAt(s, i), s, i)

\* The first symbol position from i on whose character offset is at least
\* off; at is the character offset of position i.
RECURSIVE PosAtOrAfter(_, _, _, _)
PosAtOrAfter(s, off, i, at) ==
    IF i > Len(s) \/ at >= off THEN i
    ELSE PosAtOrAfter(s, off, i + 1, at + SymLen(s[i]))

\* What exec returns for the match m and the value it leaves in lastIndex:
\* the end of the match, or 0 when there is none.
ExecResult(s, m) == [m |-> m, lastIndex |-> IF m.found THEN CharOffset(s, m.end) ELSE 0]

\* PLACEHOLDER_REGEX.exec(source) of a global expression whose lastIndex is
\* reLast.
RegexExec(s, reLast) ==
    ExecResult(s, IF reLast > StrLen(s) THEN NoMatch
                  ELSE FirstMatchFrom(s, PosAtOrAfter(s, reLast, 1, 0)))

\* ------------------------------------------------------------------ data model

\* Constants.STRING_PLACEHOLDER_LABEL, LOCALE_NAME_PLACEHOLDER_LABEL and
\* JSONP_PLACEHOLDER_LABEL.
STRING_PLACEHOLDER_LABEL == "A"
LOCALE_NAME_PLACEHOLDER_LABEL == "B"
JSONP_PLACEHOLDER_LABEL == "C"

\* An ILocaleElementMap with no entry.
NoValues == [l \in {} |-> <<>>]

\* values[locale] of an ILocaleElementMap: undefined when there is no entry.
ValueOf(values, locale) ==
    IF locale \in DOMAIN values THEN Some(values[locale]) ELSE Undefined

\* !x of a value of type string | undefined.
Falsy(opt) == ~opt.def \/ opt.v = <<>>

\* The functions an IDynamicReconstructionElement can carry as valueFn.
NoFn == [fn |-> "none", noStringsLocaleName |-> <<>>, chunkMapping |-> <<>>]
LocaleFn == [fn |-> "locale", noStringsLocaleName |-> <<>>, chunkMapping |-> <<>>]
UnsupportedFn == [fn |-> "unsupported", noStringsLocaleName |-> <<>>, chunkMapping |-> <<>>]

\* IStaticReconstructionElement
StaticElement(str) ==
    [kind |-> "static", staticString |-> str, values |-> NoValues, size |-> 0,
     stringName |-> "", locFilePath |-> "", valueFn |-> NoFn, token |-> Undefined]

\* ILocalizedReconstructionElement
LocalizedElement(stringData, size) ==
    [kind |-> "localized", staticString |-> <<>>, values |-> stringData.values,
     size |-> size, stringName |-> stringData.stringName,
     locFilePath |-> stringData.locFilePath, valueFn |-> NoFn, token |-> Undefined]

\* IDynamicReconstructionElement
DynamicElement(valueFn, size, token) ==
    [kind |-> "dynamic", staticString |-> <<>>, values |-> NoValues, size |-> size,
     stringName |-> "", locFilePath |-> "", valueFn |-> valueFn, token |-> token]

\* The issue strings, kept as the data they are built from.
MissingPlaceholderIssue(placeholder) ==
    [type |-> "Missing placeholder", placeholder |-> placeholder,
     stringName |-> "", locFilePath |-> "", locale |-> <<>>]
MissingLocaleIssue(stringName, locFilePath, locale) ==
    [type |-> "is missing in the locale", placeholder |-> <<>>,
     stringName |-> stringName, locFilePath |-> locFilePath, locale |-> locale]
NotExpectedIssue(stringName, locFilePath) ==
    [type |-> "not expected to contain localized resources", placeholder |-> <<>>,
     stringName |-> stringName, locFilePath |-> locFilePath, locale |-> <<>>]

MISSING_STRING == <<"-", "-", " ", "M", "I", "S", "S", "I", "N", "G", " ",
                    "S", "T", "R", "I", "N", "G", " ", "-", "-">>
NOT_EXPECTED_TO_BE_LOCALIZED ==
    <<"-", "-", " ", "N", "O", "T", " ", "E", "X", "P", "E", "C", "T", "E", "D", " ",
      "T", "O", " ", "B", "E", " ", "L", "O", "C", "A", "L", "I", "Z", "E", "D", " ",
      "-", "-">>

\* ------------------------------------------------------------------ _getJsonpFunction

DigitSeq == <<"0", "1", "2", "3", "4", "5", "6", "7", "8", "9">>
DigitSym(n) == DigitSeq[n + 1]

\* JSON.stringify of the chunkMapping object: integer keys come in ascending
\* order whatever the order they were set in.
RECURSIVE JsonMappingFrom(_, _, _)
JsonMappingFrom(mapping, id, first) ==
    IF id > 9 THEN <<>>
    ELSE IF id \in DOMAIN mapping
         THEN (IF first THEN <<>> ELSE <<",">>)
              \o <<"\"", DigitSym(id), "\"", ":", DigitSym(mapping[id])>>
              \o JsonMappingFrom(mapping, id + 1, FALSE)
         ELSE JsonMappingFrom(mapping, id + 1, first)

JsonMapping(mapping) == <<"{">> \o JsonMappingFrom(mapping, 0, TRUE) \o <<"}">>

\* A chunk is given by chunk.getAllAsyncChunks(): the ids of its transitive
\* async chunks, each with the mark EntityMarker.getMark returns for it.
IdsWithStrings(chunk) == {id \in DOMAIN chunk : chunk[id]}
IdsWithoutStrings(chunk) == {id \in DOMAIN chunk : ~chunk[id]}

\* Mutant: the test for "no chunk without strings" comes first.
GetJsonpFunctionUnmarkedFirst(chunk, noStringsLocaleName) ==
    IF IdsWithoutStrings(chunk) = {}
    THEN [fn |-> "localeJson", noStringsLocaleName |-> <<>>, chunkMapping |-> <<>>]
    ELSE IF IdsWithStrings(chunk) = {}
    THEN [fn |-> "noStrings", noStringsLocaleName |-> noStringsLocaleName,
          chunkMapping |-> <<>>]
    ELSE [fn |-> "mixed", noStringsLocaleName |-> noStringsLocaleName,
          chunkMapping |-> [id \in DOMAIN chunk |-> IF chunk[id] THEN 0 ELSE 1]]

\* _getJsonpFunction: the closure it returns.
GetJsonpFunction(chunk, noStringsLocaleName) ==
    IF IdsWithStrings(chunk) = {}
    THEN [fn |-> "noStrings", noStringsLocaleName |-> noStringsLocaleName,
          chunkMapping |-> <<>>]
    ELSE IF IdsWithoutStrings(chunk) = {}
    THEN [fn |-> "localeJson", noStringsLocaleName |-> <<>>, chunkMapping |-> <<>>]
    ELSE [fn |-> "mixed", noStringsLocaleName |-> noStringsLocaleName,
          chunkMapping |-> [id \in DOMAIN chunk |-> IF chunk[id] THEN 0 ELSE 1]]

\* `${chunkIdToken}` of a token that may be undefined.
TokenText(token) ==
    IF token.def THEN token.v ELSE <<"u", "n", "d", "e", "f", "i", "n", "e", "d">>

Returned(value) == [threw |-> FALSE, error |-> "", value |-> value]
Thrown(error) == [threw |-> TRUE, error |-> error, value |-> <<>>]

\* Mutant: the two locale names change places in the array.
MixedExpressionSwapped(valueFn, locale, token) ==
    <<"(", "[">> \o JsonString(valueFn.noStringsLocaleName) \o <<",">>
        \o JsonString(locale) \o <<"]", ")", "[">>
        \o JsonMapping(valueFn.chunkMapping)
        \o <<"[">> \o TokenText(token) \o <<"]", "]">>

\* `(${JSON.stringify([locale, noStringsLocaleName])})[${JSON.stringify(chunkMapping)}[${chunkIdToken}]]`
MixedExpression(valueFn, locale, token) ==
    <<"(", "[">> \o JsonString(locale) \o <<",">>
        \o JsonString(valueFn.noStringsLocaleName) \o <<"]", ")", "[">>
        \o JsonMapping(valueFn.chunkMapping)
        \o <<"[">> \o TokenText(token) \o <<"]", "]">>

\* Mutant: the locale is not tested.
MixedFnNoTest(valueFn, locale, token) == Returned(MixedExpression(valueFn, locale, token))

\* The function returned in the mixed case: if (!locale) { throw ... }, then
\* the expression.
MixedFn(valueFn, locale, token) ==
    IF locale = <<>>
    THEN Thrown("Missing locale name.")
    ELSE Returned(MixedExpression(valueFn, locale, token))

\* element.valueFn(locale, token)
ApplyValueFn(valueFn, locale, token) ==
    CASE valueFn.fn = "locale" -> Returned(locale)
      [] valueFn.fn = "unsupported" -> Thrown("unsupported")
      [] valueFn.fn = "noStrings" -> Returned(JsonString(valueFn.noStringsLocaleName))
      [] valueFn.fn = "localeJson" -> Returned(JsonString(locale))
      [] valueFn.fn = "mixed" -> MixedFn(valueFn, locale, token)
      [] OTHER -> Thrown("TypeError: valueFn is not a function")

\* ------------------------------------------------------------------ _parseStringToReconstructionSequence

\* plugin.getDataForSerialNumber(serial): undefined when the table has no entry.
GetDataForSerialNumber(plugin, serial) ==
    IF serial \in DOMAIN plugin THEN Some(plugin[serial]) ELSE Undefined

ParseReturned(issues, series) ==
    [threw |-> FALSE, error |-> "", issues |-> issues,
     reconstructionSeries |-> series, lastIndex |-> 0]
ParseThrown(error, reLast) ==
    [threw |-> TRUE, error |-> error, issues |-> <<>>,
     reconstructionSeries |-> <<>>, lastIndex |-> reLast]

\* token.substring(1, token.length - 1) of the captured "+token+"
StripPluses(t) == SubSeq(t, 2, Len(t) - 1)

ElementOk(elem, issues) == [threw |-> FALSE, error |-> "", issues |-> issues, elem |-> elem]
ElementThrown(error) ==
    [threw |-> TRUE, error |-> error, issues |-> <<>>, elem |-> StaticElement(<<>>)]

\* case Constants.STRING_PLACEHOLDER_LABEL
StringElement(placeholder, stringData) ==
    IF ~stringData.def
    THEN ElementOk(StaticElement(placeholder), <<MissingPlaceholderIssue(placeholder)>>)
    ELSE ElementOk(LocalizedElement(stringData.v, StrLen(placeholder)), <<>>)

\* case Constants.JSONP_PLACEHOLDER_LABEL
JsonpElement(placeholder, token, jsonpFunction) ==
    IF ~token.def
    THEN ElementThrown("TypeError: Cannot read property 'substring' of undefined")
    ELSE ElementOk(DynamicElement(jsonpFunction, StrLen(placeholder),
                                  Some(StripPluses(token.v))), <<>>)

\* The switch on elementLabel.
SwitchLabel(plugin, m, placeholder, jsonpFunction) ==
    CASE m.label = STRING_PLACEHOLDER_LABEL ->
            StringElement(placeholder, GetDataForSerialNumber(plugin, m.serial))
      [] m.label = LOCALE_NAME_PLACEHOLDER_LABEL ->
            ElementOk(DynamicElement(LocaleFn, StrLen(placeholder), Undefined), <<>>)
      [] m.label = JSONP_PLACEHOLDER_LABEL ->
            JsonpElement(placeholder, m.token, jsonpFunction)
      [] OTHER -> ElementThrown("Unexpected label")

\* The element built for the match m, the issues it adds or the error thrown.
ElementForMatch(plugin, source, m, jsonpFunction) ==
    SwitchLabel(plugin, m, SubSeq(source, m.start, m.end - 1), jsonpFunction)

\* The while loop: pos is the symbol position of the local lastIndex, reLast
\* the lastIndex of PLACEHOLDER_REGEX before the next exec.
RECURSIVE ParseLoop(_, _, _, _, _, _, _)

\* The end of an iteration whose switch gave e, after the exec result x.
LoopBodyEnd(plugin, source, jsonpFunction, pos, issues, series, x, e) ==
    IF e.threw
    THEN ParseThrown(e.error, x.lastIndex)
    ELSE ParseLoop(plugin, source, jsonpFunction, x.m.end, x.lastIndex,
                   issues \o e.issues,
                   series \o <<StaticElement(SubSeq(source, pos, x.m.start - 1)), e.elem>>)

\* Mutant: the text after the last match is not appended.
LoopTestNoTail(plugin, source, jsonpFunction, pos, issues, series, x) ==
    IF ~x.m.found
    THEN ParseReturned(issues, series)
    ELSE LoopBodyEnd(plugin, source, jsonpFunction, pos, issues, series, x,
                     ElementForMatch(plugin, source, x.m, jsonpFunction))

\* The loop condition with exec result x, then the body or the code after
\* the loop.
LoopTest(plugin, source, jsonpFunction, pos, issues, series, x) ==
    IF ~x.m.found
    THEN ParseReturned(issues,
                       Append(series, StaticElement(SubSeq(source, pos, Len(source)))))
    ELSE LoopBodyEnd(plugin, source, jsonpFunction, pos, issues, series, x,
                     ElementForMatch(plugin, source, x.m, jsonpFunction))

ParseLoop(plugin, source, jsonpFunction, pos, reLast, issues, series) ==
    LoopTest(plugin, source, jsonpFunction, pos, issues, series,
             RegexExec(source, reLast))

\* _parseStringToReconstructionSequence, entered with PLACEHOLDER_REGEX.lastIndex
\* equal to reLast; lastIndex of the result is its value on exit.
ParseStringToReconstructionSequence(plugin, source, jsonpFunction, reLast) ==
    ParseLoop(plugin, source, jsonpFunction, 1, reLast, <<>>, <<>>)

\* ------------------------------------------------------------------ _reconstructLocalized

ValueAndIssues(value, issues) == [value |-> value, issues |-> issues]

\* if (!newValue) { ... }: the default locale's entry, which may be undefined,
\* when fillMissingTranslationStrings; else an issue and the sentinel.
FillOrReport(newValue, element, locale, fillMissingTranslationStrings, defaultLocale) ==
    IF Falsy(newValue)
    THEN IF fillMissingTranslationStrings
         THEN ValueAndIssues(ValueOf(element.values, defaultLocale), <<>>)
         ELSE ValueAndIssues(Some(MISSING_STRING),
                             <<MissingLocaleIssue(element.stringName,
                                                  element.locFilePath, locale)>>)
    ELSE ValueAndIssues(newValue, <<>>)

\* newValue of the 'localized' case before escaping, and the issues pushed.
LocalizedNewValue(element, locale, fillMissingTranslationStrings, defaultLocale) ==
    FillOrReport(ValueOf(element.values, locale), element, locale,
                 fillMissingTranslationStrings, defaultLocale)

\* Mutant: the length of the placeholder is not subtracted.
SizeDeltaNoPlaceholder(newValue, element) == StrLen(newValue)

\* sizeDiff += (newValue.length - element.size)
SizeDelta(newValue, element) == StrLen(newValue) - element.size

StepOk(text, delta, issues) ==
    [threw |-> FALSE, error |-> "", text |-> text, delta |-> delta, issues |-> issues]
StepThrown(error) ==
    [threw |-> TRUE, error |-> error, text |-> <<>>, delta |-> 0, issues |-> <<>>]

\* reconstruction.push(newValue); sizeDiff += (newValue.length - element.size)
PushValue(newValue, element, issues) ==
    StepOk(newValue, SizeDelta(newValue, element), issues)

\* The two replace calls on newValue, which throw when it is undefined, and
\* the push.
EscapeAndPush(nv, element) ==
    IF ~nv.value.def
    THEN StepThrown("TypeError: Cannot read property 'replace' of undefined")
    ELSE PushValue(EscapeQuotes(nv.value.v), element, nv.issues)

\* The push of the value r the value function gave, if it did not throw.
PushDynamic(r, element) ==
    IF r.threw THEN StepThrown(r.error) ELSE PushValue(r.value, element, <<>>)

\* One iteration of the inner loop of _reconstructLocalized: the text pushed
\* on reconstruction, the change of sizeDiff and the issues pushed.
LocalizedStep(element, locale, fillMissingTranslationStrings, defaultLocale) ==
    CASE element.kind = "static" -> StepOk(element.staticString, 0, <<>>)
      [] element.kind = "localized" ->
            EscapeAndPush(LocalizedNewValue(element, locale,
                                            fillMissingTranslationStrings,
                                            defaultLocale), element)
      [] element.kind = "dynamic" ->
            PushDynamic(ApplyValueFn(element.valueFn, locale, element.token), element)

WalkOk(reconstruction, sizeDiff, issues) ==
    [threw |-> FALSE, error |-> "", reconstruction |-> reconstruction,
     sizeDiff |-> sizeDiff, issues |-> issues]
WalkThrown(error) ==
    [threw |-> TRUE, error |-> error, reconstruction |-> <<>>, sizeDiff |-> 0,
     issues |-> <<>>]

\* The locals of a walk after the step s.
WalkAdd(acc, s) ==
    WalkOk(Append(acc.reconstruction, s.text), acc.sizeDiff + s.delta,
           acc.issues \o s.issues)

\* The inner loop of _reconstructLocalized over the elements from position i.
RECURSIVE LocalizedWalk(_, _, _, _, _, _)

LocalizedWalkNext(series, i, locale, fillMissingTranslationStrings, defaultLocale, acc, s) ==
    IF s.threw THEN WalkThrown(s.error)
    ELSE LocalizedWalk(series, i + 1, locale, fillMissingTranslationStrings,
                       defaultLocale, WalkAdd(acc, s))

LocalizedWalk(series, i, locale, fillMissingTranslationStrings, defaultLocale, acc) ==
    IF i > Len(series) THEN acc
    ELSE LocalizedWalkNext(series, i, locale, fillMissingTranslationStrings,
                           defaultLocale, acc,
                           LocalizedStep(series[i], locale,
                                         fillMissingTranslationStrings, defaultLocale))

\* IReconstructedString, with the reconstruction array it was joined from.
ReconstructedString(walk, initialSize) ==
    [source |-> Join(walk.reconstruction), size |-> initialSize + walk.sizeDiff,
     reconstruction |-> walk.reconstruction]

NoResults == [l \in {} |-> 0]

\* Map.prototype.set
MapSet(map, key, value) ==
    [k \in DOMAIN map \cup {key} |-> IF k = key THEN value ELSE map[k]]

ReconstructReturned(issues, result) ==
    [threw |-> FALSE, error |-> "", issues |-> issues, result |-> result]
ReconstructThrown(error) ==
    [threw |-> TRUE, error |-> error, issues |-> <<>>, result |-> NoResults]

\* The outer loop of _reconstructLocalized over locales, a Set in iteration
\* order, from position k; issues is shared by all locales.
RECURSIVE LocalizedLoop(_, _, _, _, _, _, _, _)

\* Mutant: sizeDiff is not reset for the next locale, so each locale's size
\* starts from the size of the locale before it.
LocalizedLoopNextCarried(series, locales, k, fillMissingTranslationStrings, defaultLocale, initialSize, issues, results, w) ==
    IF w.threw THEN ReconstructThrown(w.error)
    ELSE LocalizedLoop(series, locales, k + 1, fillMissingTranslationStrings,
                       defaultLocale, initialSize, issues \o w.issues,
                       MapSet(results, locales[k],
                              ReconstructedString(w, IF k = 1 THEN initialSize
                                                     ELSE results[locales[k - 1]].size)))

LocalizedLoopNext(series, locales, k, fillMissingTranslationStrings, defaultLocale, initialSize, issues, results, w) ==
    IF w.threw THEN ReconstructThrown(w.error)
    ELSE LocalizedLoop(series, locales, k + 1, fillMissingTranslationStrings,
                       defaultLocale, initialSize, issues \o w.issues,
                       MapSet(results, locales[k], ReconstructedString(w, initialSize)))

LocalizedLoop(series, locales, k, fillMissingTranslationStrings, defaultLocale, initialSize, issues, results) ==
    IF k > Len(locales) THEN ReconstructReturned(issues, results)
    ELSE LocalizedLoopNext(series, locales, k, fillMissingTranslationStrings,
                           defaultLocale, initialSize, issues, results,
                           LocalizedWalk(series, 1, locales[k],
                                         fillMissingTranslationStrings, defaultLocale,
                                         WalkOk(<<>>, 0, <<>>)))

\* _reconstructLocalized
ReconstructLocalized(series, locales, fillMissingTranslationStrings, defaultLocale, initialSize) ==
    LocalizedLoop(series, locales, 1, fillMissingTranslationStrings, defaultLocale,
                  initialSize, <<>>, NoResults)

\* ------------------------------------------------------------------ _reconstructNonLocalized

\* Mutant: the sentinel is substituted and no issue is pushed.
PushNotExpectedSilent(element) == PushValue(NOT_EXPECTED_TO_BE_LOCALIZED, element, <<>>)

\* The 'localized' case of _reconstructNonLocalized.
PushNotExpected(element) ==
    PushValue(NOT_EXPECTED_TO_BE_LOCALIZED, element,
              <<NotExpectedIssue(element.stringName, element.locFilePath)>>)

\* One iteration of the loop of _reconstructNonLocalized.
NonLocalizedStep(element, noStringsLocaleName) ==
    CASE element.kind = "static" -> StepOk(element.staticString, 0, <<>>)
      [] element.kind = "localized" -> PushNotExpected(element)
      [] element.kind = "dynamic" ->
            PushDynamic(ApplyValueFn(element.valueFn, noStringsLocaleName,
                                     element.token), element)

RECURSIVE NonLocalizedWalk(_, _, _, _)

NonLocalizedWalkNext(series, i, noStringsLocaleName, acc, s) ==
    IF s.threw THEN WalkThrown(s.error)
    ELSE NonLocalizedWalk(series, i + 1, noStringsLocaleName, WalkAdd(acc, s))

NonLocalizedWalk(series, i, noStringsLocaleName, acc) ==
    IF i > Len(series) THEN acc
    ELSE NonLocalizedWalkNext(series, i, noStringsLocaleName, acc,
                              NonLocalizedStep(series[i], noStringsLocaleName))

NoString == [source |-> <<>>, size |-> 0, reconstruction |-> <<>>]

NonLocalizedResult(w, initialSize) ==
    IF w.threw
    THEN [threw |-> TRUE, error |-> w.error, issues |-> <<>>, result |-> NoString]
    ELSE [threw |-> FALSE, error |-> "", issues |-> w.issues,
          result |-> ReconstructedString(w, initialSize)]

\* _reconstructNonLocalized
ReconstructNonLocalized(series, initialSize, noStringsLocaleName) ==
    NonLocalizedResult(NonLocalizedWalk(series, 1, noStringsLocaleName,
                                        WalkOk(<<>>, 0, <<>>)), initialSize)

\* ------------------------------------------------------------------ processLocalizedAsset / processNonLocalizedAsset

\* Error(`localization:\n${issues.map((issue) => `  ${issue}`).join('\n')}`)
LocalizationError(issues) == [message |-> "localization", issues |-> issues]

\* An error some other part of the build has put on compilation.errors.
OtherError == [message |-> "other", issues |-> <<>>]

\* if (issues.length > 0) { options.compilation.errors.push(...) }
PushIssues(compilationErrors, issues) ==
    IF Len(issues) > 0
    THEN Append(compilationErrors, LocalizationError(issues))
    ELSE compilationErrors

NotParsed == ParseReturned(<<>>, <<>>)
NotReconstructed == ReconstructReturned(<<>>, NoResults)
NoArtifact == [filename |-> <<>>, source |-> <<>>, size |-> 0]

\* The locals of a call: parsedAsset, reconstructedAsset, parsedAssetName and
\* reconstructedAssetName, as far as the call got.
Locals(pa, ra, pn, rn) ==
    [parsedAsset |-> pa, reconstructedAsset |-> ra,
     parsedAssetName |-> pn, reconstructedAssetName |-> rn]

\* Mutant: the issues of the parse of the asset source are pushed although
\* the call throws.
ThrewAfterPush(o, error, stage, locals, reLast) ==
    [threw |-> TRUE, error |-> error, stage |-> stage, locals |-> locals,
     result |-> NoResults, single |-> NoArtifact, issues |-> <<>>,
     errors |-> PushIssues(o.compilationErrors, locals.parsedAsset.issues),
     lastIndex |-> reLast]

\* What a call that threw leaves behind: the error, the stage that threw, the
\* locals, compilation.errors as it was and PLACEHOLDER_REGEX.lastIndex.
Threw(o, error, stage, locals, reLast) ==
    [threw |-> TRUE, error |-> error, stage |-> stage, locals |-> locals,
     result |-> NoResults, single |-> NoArtifact, issues |-> <<>>,
     errors |-> o.compilationErrors, lastIndex |-> reLast]

\* What a call that returned leaves behind: its return value (result for
\* processLocalizedAsset, single for processNonLocalizedAsset), the issues
\* array, compilation.errors after the push and PLACEHOLDER_REGEX.lastIndex.
ReturnedWith(o, locals, result, single, issues, reLast) ==
    [threw |-> FALSE, error |-> "", stage |-> "return", locals |-> locals,
     result |-> result, single |-> single, issues |-> issues,
     errors |-> PushIssues(o.compilationErrors, issues), lastIndex |-> reLast]

\* Mutant: the issues of the two parses come before those of the two renders.
AllIssuesParsesFirst(pa, ra, pn, rn) == pa.issues \o pn.issues \o ra.issues \o rn.issues

\* const issues = [...parsedAsset.issues, ...reconstructedAsset.issues,
\*                 ...parsedAssetName.issues, ...reconstructedAssetName.issues]
AllIssues(pa, ra, pn, rn) == pa.issues \o ra.issues \o pn.issues \o rn.issues

\* Mutant: every entry gets the filename rendered for one and the same locale.
LocalizedArtifactsOneName(ra, rn) ==
    [l \in DOMAIN ra.result |->
        [filename |-> rn.result[CHOOSE k \in DOMAIN rn.result : TRUE].source,
         source |-> ra.result[l].source, size |-> ra.result[l].size]]

\* The loop that fills result: one entry per entry of reconstructedAsset.result.
LocalizedArtifacts(ra, rn) ==
    [l \in DOMAIN ra.result |->
        [filename |-> rn.result[l].source,
         source |-> ra.result[l].source, size |-> ra.result[l].size]]

\* processLocalizedAsset after the second _reconstructLocalized gave rn.
LocalizedAfterNameRender(o, pa, ra, pn, rn) ==
    IF rn.threw
    THEN Threw(o, rn.error, "reconstruct name", Locals(pa, ra, pn, rn), pn.lastIndex)
    ELSE ReturnedWith(o, Locals(pa, ra, pn, rn), LocalizedArtifacts(ra, rn),
                      NoArtifact, AllIssues(pa, ra, pn, rn), pn.lastIndex)

\* processLocalizedAsset after the second parse gave pn.
LocalizedAfterNameParse(o, pa, ra, pn) ==
    IF pn.threw
    THEN Threw(o, pn.error, "parse name", Locals(pa, ra, pn, NotReconstructed),
               pn.lastIndex)
    ELSE LocalizedAfterNameRender(
             o, pa, ra, pn,
             ReconstructLocalized(pn.reconstructionSeries, o.locales,
                                  o.fillMissingTranslationStrings, o.defaultLocale,
                                  StrLen(o.assetName)))

\* processLocalizedAsset after the first _reconstructLocalized gave ra.
LocalizedAfterRender(o, pa, ra) ==
    IF ra.threw
    THEN Threw(o, ra.error, "reconstruct asset",
               Locals(pa, ra, NotParsed, NotReconstructed), pa.lastIndex)
    ELSE LocalizedAfterNameParse(
             o, pa, ra,
             ParseStringToReconstructionSequence(o.plugin, o.assetName,
                                                 UnsupportedFn, pa.lastIndex))

\* processLocalizedAsset after the first parse gave pa.
LocalizedAfterParse(o, pa) ==
    IF pa.threw
    THEN Threw(o, pa.error, "parse asset",
               Locals(pa, NotReconstructed, NotParsed, NotReconstructed), pa.lastIndex)
    ELSE LocalizedAfterRender(
             o, pa,
             ReconstructLocalized(pa.reconstructionSeries, o.locales,
                                  o.fillMissingTranslationStrings, o.defaultLocale,
                                  o.assetSize))

\* processLocalizedAsset(options), entered with PLACEHOLDER_REGEX.lastIndex = reLast
ProcessLocalized(o, reLast) ==
    LocalizedAfterParse(
        o, ParseStringToReconstructionSequence(
               o.plugin, o.assetSource,
               GetJsonpFunction(o.chunk, o.noStringsLocaleName), reLast))

NotReconstructedNonLocalized ==
    [threw |-> FALSE, error |-> "", issues |-> <<>>, result |-> NoString]

\* The IProcessAssetResult processNonLocalizedAsset returns.
NonLocalizedArtifact(ra, rn) ==
    [filename |-> rn.result.source, source |-> ra.result.source,
     size |-> ra.result.size]

\* processNonLocalizedAsset after the second _reconstructNonLocalized gave rn.
NonLocalizedAfterNameRender(o, pa, ra, pn, rn) ==
    IF rn.threw
    THEN Threw(o, rn.error, "reconstruct name", Locals(pa, ra, pn, rn), pn.lastIndex)
    ELSE ReturnedWith(o, Locals(pa, ra, pn, rn), NoResults,
                      NonLocalizedArtifact(ra, rn), AllIssues(pa, ra, pn, rn),
                      pn.lastIndex)

\* processNonLocalizedAsset after the second parse gave pn.
NonLocalizedAfterNameParse(o, pa, ra, pn) ==
    IF pn.threw
    THEN Threw(o, pn.error, "parse name",
               Locals(pa, ra, pn, NotReconstructedNonLocalized), pn.lastIndex)
    ELSE NonLocalizedAfterNameRender(
             o, pa, ra, pn,
             ReconstructNonLocalized(pn.reconstructionSeries, StrLen(o.assetName),
                                     o.noStringsLocaleName))

\* processNonLocalizedAsset after the first _reconstructNonLocalized gave ra.
NonLocalizedAfterRender(o, pa, ra) ==
    IF ra.threw
    THEN Threw(o, ra.error, "reconstruct asset",
               Locals(pa, ra, NotParsed, NotReconstructedNonLocalized), pa.lastIndex)
    ELSE NonLocalizedAfterNameParse(
             o, pa, ra,
             ParseStringToReconstructionSequence(o.plugin, o.assetName,
                                                 UnsupportedFn, pa.lastIndex))

\* processNonLocalizedAsset after the first parse gave pa.
NonLocalizedAfterParse(o, pa) ==
    IF pa.threw
    THEN Threw(o, pa.error, "parse asset",
               Locals(pa, NotReconstructedNonLocalized, NotParsed,
                      NotReconstructedNonLocalized), pa.lastIndex)
    ELSE NonLocalizedAfterRender(
             o, pa,
             ReconstructNonLocalized(pa.reconstructionSeries, o.assetSize,
                                     o.noStringsLocaleName))

\* processNonLocalizedAsset(options), entered with PLACEHOLDER_REGEX.lastIndex = reLast
ProcessNonLocalized(o, reLast) ==
    NonLocalizedAfterParse(
        o, ParseStringToReconstructionSequence(
               o.plugin, o.assetSource,
               GetJsonpFunction(o.chunk, o.noStringsLocaleName), reLast))

\* ------------------------------------------------------------------ inputs

\* Placeholders as they appear in asset text.
PH_A1 == <<Prefix, "_", "A", "_", "1">>
PH_A9 == <<Prefix, "_", "A", "_", "9">>
PH_B == <<Prefix, "_", "B", "_", "0">>
PH_C == <<Prefix, "_", "C", "+", "c", "+", "_", "0">>
PH_CNoToken == <<Prefix, "_", "C", "_", "0">>
PH_D == <<Prefix, "_", "D", "_", "0">>
PH_BToken == <<Prefix, "_", "B", "+", "c", "+", "_", "7">>

\* The pieces asset sources are made of: a literal character and the three kinds of
\* placeholder (serial number 1 is in the string table, 9 is not).
Pieces == {<<"x">>, PH_A1, PH_A9, PH_B, PH_C}

RECURSIVE PieceSeqs(_)
PieceSeqs(n) ==
    IF n = 0 THEN {<<>>}
    ELSE PieceSeqs(n - 1)
         \cup {p \o s : p \in Pieces, s \in PieceSeqs(n - 1)}

\* Texts the plugin's loader never emits: a label-C placeholder with no
\* +token+ segment, placeholder-like text whose label is none of A, B, C, and
\* a label-B placeholder with a +token+ segment and another serial number.
OddSources == {PH_CNoToken, PH_D, PH_D \o PH_A9, PH_BToken \o PH_C}

\* The asset sources: the texts of at most MaxPieces pieces, and the odd ones.
Sources == PieceSeqs(MaxPieces) \cup OddSources

\* asset.size() counts bytes where asset.source().length counts characters:
\* the literal "x" stands for a character of two bytes.
RECURSIVE ByteSize(_, _)
ByteSize(s, n) ==
    IF n = 0 THEN 0
    ELSE ByteSize(s, n - 1) + (IF s[n] = "x" THEN 2 ELSE SymLen(s[n]))

\* IAsset: source() and size().
Assets == {[source |-> s, size |-> ByteSize(s, Len(s))] : s \in Sources}

AssetNames == {<<"n", "_">> \o PH_B, PH_A9 \o PH_A1, PH_C}

LocaleE == <<"e">>
LocaleS == <<"s">>
LocaleNames == {LocaleE, LocaleS}

\* A Set<string> of locales in iteration order.
LocaleSeqs ==
    {ls \in UNION {[1..n -> LocaleNames] : n \in 0..MaxLocales} :
        \A i, j \in DOMAIN ls : i # j => ls[i] # ls[j]}

\* The per-locale values one string of the table may have.
ValueMaps ==
    { [l \in LocaleNames |-> IF l = LocaleE THEN <<"h">> ELSE <<"\"", "a", "'">>],
      [l \in {LocaleE} |-> <<"h", "'">>],
      [l \in {LocaleS} |-> <<"t">>],
      [l \in LocaleNames |-> IF l = LocaleE THEN <<"h">> ELSE <<>>] }

\* The string tables: serial number 1 is known, with one of the value maps.
Plugins ==
    {[serial \in {<<"1">>} |->
         [values |-> v, locFilePath |-> "strings1.loc.json", stringName |-> "string1"]] :
     v \in ValueMaps}

ChunkIds == {1, 2}

\* The async chunks of a chunk, each marked or not.
Chunks == {[id \in {} |-> FALSE], [id \in {1} |-> TRUE], [id \in ChunkIds |-> id = 2]}

NoStringsLocaleNames == {<<"n">>}
DefaultLocales == {LocaleE}

\* compilation.errors as the call finds it.
PriorErrors == {<<>>, <<OtherError>>}

\* Calls in which a locale name is the empty string: as a requested locale of
\* processLocalizedAsset, as noStringsLocaleName of processNonLocalizedAsset.
EmptyLocale == <<>>
EmptyLocaleSeqs == {<<EmptyLocale>>, <<LocaleE, EmptyLocale>>}
EmptyLocaleSources == {PH_C, PH_A1 \o PH_C, PH_B}

EmptyLocaleAssets == {a \in Assets : a.source \in EmptyLocaleSources}

\* IProcessLocalizedAssetOptions
LocalizedOptions ==
    {[op |-> "processLocalizedAsset", plugin |-> p, assetSource |-> a.source,
      assetSize |-> a.size, assetName |-> <<"n", "_">> \o PH_B, chunk |-> c,
      noStringsLocaleName |-> ns, locales |-> ls, fillMissingTranslationStrings |-> f,
      defaultLocale |-> d, compilationErrors |-> <<>>] :
     p \in Plugins, a \in EmptyLocaleAssets, c \in Chunks, ns \in NoStringsLocaleNames,
     ls \in EmptyLocaleSeqs, f \in BOOLEAN, d \in DefaultLocales}
    \cup
    {[op |-> "processLocalizedAsset", plugin |-> p, assetSource |-> a.source,
      assetSize |-> a.size, assetName |-> n, chunk |-> c, noStringsLocaleName |-> ns,
      locales |-> ls, fillMissingTranslationStrings |-> f, defaultLocale |-> d,
      compilationErrors |-> e] :
     p \in Plugins, a \in Assets, n \in AssetNames, c \in Chunks,
     ns \in NoStringsLocaleNames, ls \in LocaleSeqs, f \in BOOLEAN,
     d \in DefaultLocales, e \in PriorErrors}

\* IProcessNonLocalizedAssetOptions
NonLocalizedOptions ==
    {[op |-> "processNonLocalizedAsset", plugin |-> p, assetSource |-> a.source,
      assetSize |-> a.size, assetName |-> <<"n", "_">> \o PH_B, chunk |-> c,
      noStringsLocaleName |-> EmptyLocale, locales |-> <<>>,
      fillMissingTranslationStrings |-> FALSE, defaultLocale |-> <<>>,
      compilationErrors |-> <<>>] :
     p \in Plugins, a \in EmptyLocaleAssets, c \in Chunks}
    \cup
    {[op |-> "processNonLocalizedAsset", plugin |-> p, assetSource |-> a.source,
      assetSize |-> a.size, assetName |-> n, chunk |-> c, noStringsLocaleName |-> ns,
      locales |-> <<>>, fillMissingTranslationStrings |-> FALSE, defaultLocale |-> <<>>,
      compilationErrors |-> e] :
     p \in Plugins, a \in Assets, n \in AssetNames, c \in Chunks,
     ns \in NoStringsLocaleNames, e \in PriorErrors}

NoCall ==
    [op |-> "none", plugin |-> <<>>, assetSource |-> <<>>, assetSize |-> 0,
     assetName |-> <<>>, chunk |-> <<>>, noStringsLocaleName |-> <<>>,
     locales |-> <<>>, fillMissingTranslationStrings |-> FALSE, defaultLocale |-> <<>>,
     compilationErrors |-> <<>>]

NoOutcome ==
    [threw |-> FALSE, error |-> "", stage |-> "none",
     locals |-> Locals(NotParsed, NotReconstructed, NotParsed, NotReconstructed),
     result |-> NoResults, single |-> NoArtifact, issues |-> <<>>,
     errors |-> <<>>, lastIndex |-> 0]

\* ------------------------------------------------------------------ state machine

VARIABLES
    regexLastIndex,  \* PLACEHOLDER_REGEX.lastIndex, module state shared by all calls
    errors,          \* options.compilation.errors of the call in progress
    pc,              \* "idle", or how the last call ended: "returned" or "threw"
    call,            \* the options of the last call
    ret,             \* what the last call left behind
    retry,           \* the call of Utilities.executeCommandWithRetry in progress
    timed,           \* the call of Utilities.retryUntilTimeout in progress
    util             \* the last call of another function of Utilities, and its outcome

vars == <<regexLastIndex, errors, pc, call, ret, retry, timed, util>>

\* The state of AssetProcessor, and the state of Utilities.
assetVars == <<regexLastIndex, errors, pc, call, ret>>
utilitiesVars == <<retry, timed, util>>


\* No error, and the errors a call of executeCommandWithRetry can end with:
\* its own, the one executeCommand threw in the given attempt, and the one
\* retryCallback threw.
NoError == [kind |-> "none", attempt |-> 0]
MaxAttemptsError == [kind |-> "The maxAttempts parameter cannot be less than 1", attempt |-> 0]
CommandError(attempt, cause) == [kind |-> cause, attempt |-> attempt]
CallbackError == [kind |-> "retryCallback", attempt |-> 0]

\* No call of executeCommandWithRetry in progress.
RetryIdle ==
    [pc |-> "idle", maxAttempts |-> 0, retryCallback |-> FALSE, attemptNumber |-> 0,
     events |-> <<>>, error |-> NoError]

\* No call of retryUntilTimeout in progress.
TimedIdle ==
    [pc |-> "idle", maxWaitTimeMs |-> 0, time |-> 0, startTime |-> 0, currentTime |-> 0,
     looped |-> FALSE, calls |-> 0, sinceTick |-> 0, returns |-> 0, result |-> 0,
     error |-> NoError]

\* No other function of Utilities was called.
NoUtil == [op |-> "none"]

\* No call of a function of Utilities is in progress or waits for its caller.
UtilitiesIdle == retry.pc = "idle" /\ timed.pc = "idle" /\ util.op = "none"

Init ==
    /\ regexLastIndex = 0
    /\ errors = <<>>
    /\ pc = "idle"
    /\ call = NoCall
    /\ ret = NoOutcome
    /\ retry = RetryIdle
    /\ timed = TimedIdle
    /\ util = NoUtil

Finish(o, r) ==
    /\ call' = o
    /\ ret' = r
    /\ errors' = r.errors
    /\ regexLastIndex' = r.lastIndex
    /\ pc' = IF r.threw THEN "threw" ELSE "returned"
    /\ UNCHANGED utilitiesVars

ProcessLocalizedAsset ==
    /\ pc = "idle"
    /\ \E o \in LocalizedOptions : Finish(o, ProcessLocalized(o, regexLastIndex))

ProcessNonLocalizedAsset ==
    /\ pc = "idle"
    /\ \E o \in NonLocalizedOptions : Finish(o, ProcessNonLocalized(o, regexLastIndex))

\* The caller takes the result (or catches the error) and goes on; the call's
\* locals are gone, PLACEHOLDER_REGEX stays as the call left it.
Continue ==
    /\ pc # "idle"
    /\ pc' = "idle"
    /\ call' = NoCall
    /\ ret' = NoOutcome
    /\ errors' = <<>>
    /\ UNCHANGED <<regexLastIndex, utilitiesVars>>

Next == ProcessLocalizedAsset \/ ProcessNonLocalizedAsset \/ Continue

Spec == Init /\ [][Next]_vars

\* ------------------------------------------------------------------ Utilities.executeCommandWithRetry

\* The values of maxAttempts.
AttemptLimits == (-1)..MaxAttemptsBound

\* The call, up to the first executeCommand: the test of maxAttempts and
\* attemptNumber = 1.  retryCallback is given or not.
ExecuteCommandWithRetry ==
    /\ UtilitiesIdle
    /\ \E maxAttempts \in AttemptLimits, retryCallback \in BOOLEAN :
          retry' = IF maxAttempts < 1
                   THEN [RetryIdle EXCEPT !.pc = "threw", !.maxAttempts = maxAttempts,
                                          !.retryCallback = retryCallback,
                                          !.error = MaxAttemptsError]
                   ELSE [RetryIdle EXCEPT !.pc = "try", !.maxAttempts = maxAttempts,
                                          !.retryCallback = retryCallback,
                                          !.attemptNumber = 1]
    /\ UNCHANGED <<assetVars, timed, util>>

\* How executeCommand fails (_processResult): the process could not be run
\* (result.error), or it ended with an exit code other than 0.
Causes == {"result.error", "exit code"}

\* Mutant: the last attempt is not made.
AfterFailureOneLess(r, cause) ==
    IF r.attemptNumber + 1 < r.maxAttempts
    THEN [r EXCEPT !.attemptNumber = r.attemptNumber + 1,
                   !.events = Append(r.events, cause),
                   !.pc = IF r.retryCallback THEN "callback" ELSE "try"]
    ELSE [r EXCEPT !.events = Append(r.events, cause), !.pc = "threw",
                   !.error = CommandError(r.attemptNumber, cause)]

\* The catch block, up to the call of retryCallback: another attempt when
\* attemptNumber < maxAttempts, else the error is thrown again.
AfterFailure(r, cause) ==
    IF r.attemptNumber < r.maxAttempts
    THEN [r EXCEPT !.attemptNumber = r.attemptNumber + 1,
                   !.events = Append(r.events, cause),
                   !.pc = IF r.retryCallback THEN "callback" ELSE "try"]
    ELSE [r EXCEPT !.events = Append(r.events, cause), !.pc = "threw",
                   !.error = CommandError(r.attemptNumber, cause)]

\* Utilities.executeCommand returns: break.
CommandSucceeds ==
    /\ retry.pc = "try"
    /\ retry' = [retry EXCEPT !.events = Append(retry.events, "succeeded"),
                              !.pc = "returned"]
    /\ UNCHANGED <<assetVars, timed, util>>

\* Utilities.executeCommand throws.
CommandFails ==
    /\ retry.pc = "try"
    /\ \E cause \in Causes : retry' = AfterFailure(retry, cause)
    /\ UNCHANGED <<assetVars, timed, util>>

\* retryCallback() returns: continue.
RetryCallbackReturns ==
    /\ retry.pc = "callback"
    /\ retry' = [retry EXCEPT !.events = Append(retry.events, "retryCallback"),
                              !.pc = "try"]
    /\ UNCHANGED <<assetVars, timed, util>>

\* retryCallback() throws, inside the catch block: the error leaves
\* executeCommandWithRetry.
RetryCallbackThrows ==
    /\ retry.pc = "callback"
    /\ retry' = [retry EXCEPT !.events = Append(retry.events, "retryCallback"),
                              !.pc = "threw", !.error = CallbackError]
    /\ UNCHANGED <<assetVars, timed, util>>

\* The caller goes on after the call returned or threw.
RetryContinue ==
    /\ retry.pc \in {"returned", "threw"}
    /\ retry' = RetryIdle
    /\ UNCHANGED <<assetVars, timed, util>>

\* ------------------------------------------------------------------ Utilities.retryUntilTimeout

\* The values of maxWaitTimeMs, the values of getTimeInMs() at the call, and
\* the last value of the clock: late enough for every wait to run out.
WaitTimes == (-1)..MaxWaitBound
StartTimes == {0, 1}
LastTime == MaxWaitBound + 2

\* The error the given call of fn throws, the value it returns, and
\* getTimeoutError(innerError).
FnError(n) == [kind |-> "fn", attempt |-> n]
FnResult(n) == n
GetTimeoutError(innerError) == [kind |-> "getTimeoutError", attempt |-> innerError.attempt]

\* The call, up to the first call of fn: startTime = getTimeInMs().
RetryUntilTimeout ==
    /\ UtilitiesIdle
    /\ \E maxWaitTimeMs \in WaitTimes, now \in StartTimes :
          timed' = [TimedIdle EXCEPT !.pc = "try", !.maxWaitTimeMs = maxWaitTimeMs,
                                     !.time = now, !.startTime = now]
    /\ UNCHANGED <<assetVars, retry, util>>

\* The clock advances during the call.
Tick ==
    /\ timed.pc = "try"
    /\ timed.time < LastTime
    /\ timed' = [timed EXCEPT !.time = timed.time + 1, !.sinceTick = 0]
    /\ UNCHANGED <<assetVars, retry, util>>

\* result = fn(); break; and then return result.
FnReturns ==
    /\ timed.pc = "try"
    /\ timed' = [timed EXCEPT !.calls = timed.calls + 1, !.returns = timed.returns + 1,
                              !.result = FnResult(timed.calls + 1), !.pc = "returned"]
    /\ UNCHANGED <<assetVars, retry, util>>

\* Mutant: no retry at the very end of the wait.
CatchAtEdge(t, e) ==
    IF t.time - t.startTime >= t.maxWaitTimeMs
    THEN [t EXCEPT !.looped = TRUE, !.currentTime = t.time, !.pc = "threw",
                   !.error = GetTimeoutError(e)]
    ELSE [t EXCEPT !.looped = TRUE, !.currentTime = t.time]

\* The catch block: looped = true, currentTime = getTimeInMs(), and the
\* timeout error when currentTime - startTime > maxWaitTimeMs.
Catch(t, e) ==
    IF t.time - t.startTime > t.maxWaitTimeMs
    THEN [t EXCEPT !.looped = TRUE, !.currentTime = t.time, !.pc = "threw",
                   !.error = GetTimeoutError(e)]
    ELSE [t EXCEPT !.looped = TRUE, !.currentTime = t.time]

\* fn() throws.
FnThrows ==
    /\ timed.pc = "try"
    /\ timed.sinceTick < MaxCallsPerTick
    /\ timed' = Catch([timed EXCEPT !.calls = timed.calls + 1,
                                    !.sinceTick = timed.sinceTick + 1],
                      FnError(timed.calls + 1))
    /\ UNCHANGED <<assetVars, retry, util>>

\* The caller goes on after the call returned or threw.
TimedContinue ==
    /\ timed.pc \in {"returned", "threw"}
    /\ timed' = TimedIdle
    /\ UNCHANGED <<assetVars, retry, util>>

\* ------------------------------------------------------------------ Utilities.isFileTimestampCurrent

\* The file system: each name has no file, or a file with its last-modified
\* time (fs.Stats.mtime).
NoFile == [exists |-> FALSE, mtime |-> 0]
File(mtime) == [exists |-> TRUE, mtime |-> mtime]
FileStates == {NoFile} \cup {File(m) : m \in 1..MaxMtime}
OutputNames == {"out"}
InputNames == {"a", "b"}
FileSystems == [OutputNames \cup InputNames -> FileStates]
InputFilenames == UNION {[1..n -> InputNames] : n \in 0..MaxInputs}

\* The for loop over inputFilenames from the i-th on: false at the first
\* input that does not exist or is newer than the output, else true.
RECURSIVE InputsCurrent(_, _, _, _)
InputsCurrent(fileSystem, outputStats, inputFilenames, i) ==
    IF i > Len(inputFilenames) THEN TRUE
    ELSE IF ~fileSystem[inputFilenames[i]].exists THEN FALSE
    ELSE IF outputStats.mtime < fileSystem[inputFilenames[i]].mtime THEN FALSE
    ELSE InputsCurrent(fileSystem, outputStats, inputFilenames, i + 1)

IsFileTimestampCurrent(fileSystem, outputFilename, inputFilenames) ==
    IF ~fileSystem[outputFilename].exists THEN FALSE
    ELSE InputsCurrent(fileSystem, fileSystem[outputFilename], inputFilenames, 1)

\* A call of isFileTimestampCurrent.
IsFileTimestampCurrentCall ==
    /\ UtilitiesIdle
    /\ \E fileSystem \in FileSystems, outputFilename \in OutputNames, inputFilenames \in InputFilenames :
          util' = [op |-> "isFileTimestampCurrent", fileSystem |-> fileSystem,
                   outputFilename |-> outputFilename, inputFilenames |-> inputFilenames,
                   current |-> IsFileTimestampCurrent(fileSystem, outputFilename, inputFilenames)]
    /\ UNCHANGED <<assetVars, retry, timed>>

\* The caller goes on after a call of a function of Utilities.
UtilitiesContinue ==
    /\ util.op # "none"
    /\ util' = NoUtil
    /\ UNCHANGED <<assetVars, retry, timed>>

\* ------------------------------------------------------------------ Utilities._createEnvironmentForRushCommand

\* os.platform(), and path.delimiter on it.
Platforms == {"win32", "linux"}
Delimiter(platform) == IF platform = "win32" THEN ";" ELSE ":"

\* Names of environment variables: one symbol, or the prefix of the
\* variables of NPM's configuration and the rest of the name.
PATH == <<"PATH">>
INIT_CWD == <<"INIT_CWD">>
NameList ==
    << PATH, <<"Path">>, INIT_CWD, <<"init_cwd">>, <<"NPM_CONFIG_", "REGISTRY">>,
       <<"npm_config_", "registry">>, <<"HOME">> >>

\* String.prototype.toUpperCase() on the symbols of a name.
UpperSym(s) ==
    CASE s = "Path" -> "PATH"
      [] s = "init_cwd" -> "INIT_CWD"
      [] s = "npm_config_" -> "NPM_CONFIG_"
      [] s = "registry" -> "REGISTRY"
      [] OTHER -> s
ToUpperCase(name) == [i \in DOMAIN name |-> UpperSym(name[i])]

\* normalizedKey, and normalizedKey.match(/^NPM_CONFIG_/).
NormalizedKey(platform, key) == IF platform = "win32" THEN ToUpperCase(key) ELSE key
MatchesNpmConfig(normalizedKey) == normalizedKey[1] = "NPM_CONFIG_"

\* The values of PATH, of one or two entries or empty, and the value each
\* other variable has in an initial environment.
PathValues(platform) == {<<>>, <<"/bin">>, <<"/bin", Delimiter(platform), "/usr/bin">>}
InheritedValue(name) == <<"value of">> \o name

\* The initial environments: at most MaxVars variables, as the pairs of name
\* and value in the order of Object.getOwnPropertyNames.  Names are not case
\* sensitive on win32, so no two names there differ by case only.
RECURSIVE Ascending(_)
Ascending(S) ==
    IF S = {} THEN <<>>
    ELSE LET least == CHOOSE i \in S : \A j \in S : i <= j
         IN <<least>> \o Ascending(S \ {least})
KeySeqs(platform) ==
    {Ascending(S) : S \in {X \in SUBSET DOMAIN NameList :
        /\ Cardinality(X) <= MaxVars
        /\ platform = "win32" =>
              \A i, j \in X : ToUpperCase(NameList[i]) = ToUpperCase(NameList[j]) => i = j}}
Environments(platform) ==
    {[i \in DOMAIN ks |-> <<NameList[ks[i]], IF NameList[ks[i]] = PATH THEN p ELSE InheritedValue(NameList[ks[i]])>>] : ks \in KeySeqs(platform), p \in PathValues(platform)}

\* environment[key] = value, and environment[key].
EnvSet(environment, key, value) ==
    [k \in DOMAIN environment \cup {key} |-> IF k = key THEN value ELSE environment[k]]
EnvGet(environment, key) ==
    IF key \in DOMAIN environment THEN Some(environment[key]) ELSE Undefined

\* The loop over the names of initialEnvironment from the i-th on: INIT_CWD
\* and the variables of NPM's configuration are left out, every other
\* variable is copied under its normalized name.
\* Mutant: the inherited INIT_CWD is kept.
SkippedNpmOnly(normalizedKey) == MatchesNpmConfig(normalizedKey)

\* The two tests that end with continue.
Skipped(normalizedKey) == normalizedKey = INIT_CWD \/ MatchesNpmConfig(normalizedKey)

RECURSIVE CopyEnvironment(_, _, _, _)
CopyEnvironment(platform, initialEnvironment, i, environment) ==
    IF i > Len(initialEnvironment) THEN environment
    ELSE LET normalizedKey == NormalizedKey(platform, initialEnvironment[i][1])
         IN IF Skipped(normalizedKey)
            THEN CopyEnvironment(platform, initialEnvironment, i + 1, environment)
            ELSE CopyEnvironment(platform, initialEnvironment, i + 1,
                                 EnvSet(environment, normalizedKey, initialEnvironment[i][2]))

\* path.resolve(rootDirectory, 'node_modules', '.bin') of an absolute
\* rootDirectory.
BinPath(rootDirectory) == rootDirectory \o <<"/node_modules/.bin">>

\* Mutant: the delimiter is written also before an empty path.
PrependAlways(platform, existingPath, rootDirectory) == BinPath(rootDirectory) \o <<Delimiter(platform)>> \o existingPath.v

PrependNodeModulesBinToPath(platform, existingPath, rootDirectory) == IF ~Falsy(existingPath) THEN BinPath(rootDirectory) \o <<Delimiter(platform)>> \o existingPath.v ELSE BinPath(rootDirectory)

\* if (options.initCwd) environment['INIT_CWD'] = options.initCwd.
WithInitCwd(environment, initCwd) == IF ~Falsy(initCwd) THEN EnvSet(environment, INIT_CWD, initCwd.v) ELSE environment

\* if (includeRepoBin && commonTempFolder): PATH gets the folder's bin.
WithRepoBin(platform, environment, pathOptions) ==
    IF pathOptions.includeRepoBin /\ ~Falsy(pathOptions.commonTempFolder)
    THEN EnvSet(environment, PATH, PrependNodeModulesBinToPath(platform, EnvGet(environment, PATH), pathOptions.commonTempFolder.v))
    ELSE environment

\* if (includeProjectBin && projectRoot): PATH gets the project's bin.
WithProjectBin(platform, environment, pathOptions) ==
    IF pathOptions.includeProjectBin /\ ~Falsy(pathOptions.projectRoot)
    THEN EnvSet(environment, PATH, PrependNodeModulesBinToPath(platform, EnvGet(environment, PATH), pathOptions.projectRoot.v))
    ELSE environment

\* if (options.pathOptions): first the repo's bin, then the project's.
WithPathOptions(platform, environment, pathOptions) ==
    IF pathOptions.def
    THEN WithProjectBin(platform, WithRepoBin(platform, environment, pathOptions.v), pathOptions.v)
    ELSE environment

\* Utilities._createEnvironmentForRushCommand(options); processEnv is
\* process.env, taken when options.initialEnvironment is undefined.
CreateEnvironmentForRushCommand(platform, processEnv, options) ==
    LET initialEnvironment == IF options.initialEnvironment.def THEN options.initialEnvironment.v ELSE processEnv
    IN WithPathOptions(platform, WithInitCwd(CopyEnvironment(platform, initialEnvironment, 1, <<>>), options.initCwd), options.pathOptions)

\* The values of options.initCwd and of options.pathOptions.
InitCwds == {Undefined, Some(<<>>), Some(<<"/cwd">>)}
PathOptions ==
    {Undefined} \cup
    {Some([includeProjectBin |-> p, includeRepoBin |-> r, projectRoot |-> pr, commonTempFolder |-> ct]) :
        p \in BOOLEAN, r \in BOOLEAN, pr \in {Undefined, Some(<<"/project">>)}, ct \in {Undefined, Some(<<"/temp">>)}}

\* The process.env of a call that is given an initialEnvironment.
OtherEnvironment == << <<<<"NPM_CONFIG_", "REGISTRY">>, <<"other">>>>, <<<<"HOME">>, <<"other">>>> >>

\* A call of _createEnvironmentForRushCommand.
CreateEnvironmentForRushCommandCall ==
    /\ UtilitiesIdle
    /\ \E platform \in Platforms :
       \E env \in Environments(platform), given \in BOOLEAN, initCwd \in InitCwds, pathOptions \in PathOptions :
          LET options == [initCwd |-> initCwd, pathOptions |-> pathOptions, initialEnvironment |-> IF given THEN Some(env) ELSE Undefined]
              processEnv == IF given THEN OtherEnvironment ELSE env
          IN util' = [op |-> "_createEnvironmentForRushCommand", platform |-> platform,
                      processEnv |-> processEnv, options |-> options,
                      result |-> CreateEnvironmentForRushCommand(platform, processEnv, options)]
    /\ UNCHANGED <<assetVars, retry, timed>>

\* ------------------------------------------------------------------ Utilities._executeCommandInternal

\* An environment given as pairs, as the object it is.
RECURSIVE AsObject(_, _, _)
AsObject(pairs, i, environment) ==
    IF i > Len(pairs) THEN environment
    ELSE AsObject(pairs, i + 1, EnvSet(environment, pairs[i][1], pairs[i][2]))

\* options.env of the spawnSync call: the caller's environment when
\* keepEnvironment, else the one _createEnvironmentForRushCommand builds of it.
SpawnEnv(platform, processEnv, environment, keepEnvironment) == IF keepEnvironment THEN (IF environment.def THEN Some(AsObject(environment.v, 1, <<>>)) ELSE Undefined) ELSE Some(CreateEnvironmentForRushCommand(platform, processEnv, [initCwd |-> Undefined, pathOptions |-> Undefined, initialEnvironment |-> environment]))

\* A call of _executeCommandInternal, up to the options it spawns with; the
\* child gets process.env when options.env is undefined.
ExecuteCommandInternal ==
    /\ UtilitiesIdle
    /\ \E platform \in Platforms :
       \E env \in Environments(platform), given \in BOOLEAN, keepEnvironment \in BOOLEAN :
          LET environment == IF given THEN Some(env) ELSE Undefined
              processEnv == IF given THEN OtherEnvironment ELSE env
              spawnEnv == SpawnEnv(platform, processEnv, environment, keepEnvironment)
          IN util' = [op |-> "_executeCommandInternal", platform |-> platform,
                      processEnv |-> processEnv, environment |-> environment,
                      keepEnvironment |-> keepEnvironment,
                      childEnv |-> IF spawnEnv.def THEN spawnEnv.v ELSE AsObject(processEnv, 1, <<>>)]
    /\ UNCHANGED <<assetVars, retry, timed>>

\* ------------------------------------------------------------------ Utilities.syncNpmrc

\* String.prototype.split(separator): the texts between the separators.
RECURSIVE SplitFrom(_, _, _)
SplitFrom(text, separator, current) ==
    IF text = <<>> THEN <<current>>
    ELSE IF Head(text) = separator THEN <<current>> \o SplitFrom(Tail(text), separator, <<>>)
    ELSE SplitFrom(Tail(text), separator, Append(current, Head(text)))
Split(text, separator) == SplitFrom(text, separator, <<>>)

\* String.prototype.trim(): no white space at either end.
IsSpace(c) == c \in {" ", "\r", "\n"}
RECURSIVE TrimStart(_)
TrimStart(s) == IF s # <<>> /\ IsSpace(Head(s)) THEN TrimStart(Tail(s)) ELSE s
RECURSIVE TrimEnd(_)
TrimEnd(s) == IF s # <<>> /\ IsSpace(s[Len(s)]) THEN TrimEnd(SubSeq(s, 1, Len(s) - 1)) ELSE s
Trim(s) == TrimEnd(TrimStart(s))

\* The end of the match of /\$\{([^\}]+)\}/ that starts at i, 0 when there
\* is none: "$", "{", one or more characters other than "}", and "}".
RECURSIVE BraceFrom(_, _)
BraceFrom(line, j) ==
    IF j > Len(line) THEN 0 ELSE IF line[j] = "}" THEN j ELSE BraceFrom(line, j + 1)
TokenEnd(line, i) ==
    IF i + 3 <= Len(line) /\ line[i] = "$" /\ line[i + 1] = "{" /\ line[i + 2] # "}"
    THEN BraceFrom(line, i + 3)
    ELSE 0

\* line.match(regex) with the g flag: the matches from i on, left to right,
\* none overlapping.
RECURSIVE MatchTokens(_, _)
MatchTokens(line, i) ==
    IF i > Len(line) THEN <<>>
    ELSE IF TokenEnd(line, i) # 0
         THEN <<SubSeq(line, i, TokenEnd(line, i))>> \o MatchTokens(line, TokenEnd(line, i) + 1)
         ELSE MatchTokens(line, i + 1)

\* token.substring(2, token.length - 1), and process.env[name].
EnvironmentVariableName(token) == SubSeq(token, 3, Len(token) - 1)
ProcessEnv(env, name) ==
    IF name = <<"A">> THEN env.A ELSE IF name = <<"B">> THEN env.B ELSE Undefined

\* Mutant: only the first token of a line is looked at.
FirstTokenOnly(line, env) == MatchTokens(line, 1) # <<>> /\ Falsy(ProcessEnv(env, EnvironmentVariableName(MatchTokens(line, 1)[1])))

\* lineShouldBeTrimmed: some token names a variable that is not set or empty.
LineShouldBeTrimmed(line, env) == \E k \in DOMAIN MatchTokens(line, 1) : Falsy(ProcessEnv(env, EnvironmentVariableName(MatchTokens(line, 1)[k])))

MissingPrefix == <<"; MISSING ENVIRONMENT VARIABLE: ">>
ResultLine(line, env) == IF LineShouldBeTrimmed(line, env) THEN MissingPrefix \o line ELSE line

\* os.EOL, and resultLines.join(os.EOL).
EOL(platform) == IF platform = "win32" THEN <<"\r", "\n">> ELSE <<"\n">>
RECURSIVE JoinWith(_, _)
JoinWith(lines, eol) ==
    IF lines = <<>> THEN <<>>
    ELSE IF Len(lines) = 1 THEN lines[1]
    ELSE lines[1] \o eol \o JoinWith(Tail(lines), eol)

\* The text written to the target for the text of the source.
SyncedText(platform, env, text) ==
    LET npmrcFileLines == Split(text, "\n")
    IN JoinWith([i \in DOMAIN npmrcFileLines |-> ResultLine(Trim(npmrcFileLines[i]), env)], EOL(platform))

\* The target .npmrc after syncNpmrc: written when the source exists, else
\* deleted when it exists.
SyncNpmrc(platform, env, source, target) ==
    IF source.def THEN Some(SyncedText(platform, env, source.v))
    ELSE IF target.def THEN Undefined
    ELSE target

\* The texts of a source .npmrc, of at most MaxNpmrcPieces pieces.
NpmrcPieces ==
    { <<"\n">>, <<" ">>, <<"\r">>, <<"x">>, <<"}">>, <<"$", "{", "A", "}">>, <<"$", "{", "B", "}">>,
      <<"$", "{", "}">> }
RECURSIVE NpmrcTexts(_)
NpmrcTexts(n) ==
    IF n = 0 THEN {<<>>}
    ELSE NpmrcTexts(n - 1) \cup {t \o p : t \in NpmrcTexts(n - 1), p \in NpmrcPieces}
ProcessEnvs == [A : {Undefined, Some(<<>>), Some(<<"v">>)}, B : {Undefined, Some(<<"v">>)}]

\* A call of syncNpmrc.
SyncNpmrcCall ==
    /\ UtilitiesIdle
    /\ \E platform \in Platforms, env \in ProcessEnvs, target \in {Undefined, Some(<<"old">>)} :
       \E source \in {Undefined} \cup {Some(text) : text \in NpmrcTexts(MaxNpmrcPieces)} :
          util' = [op |-> "syncNpmrc", platform |-> platform, env |-> env, source |-> source,
                   target |-> target, result |-> SyncNpmrc(platform, env, source, target)]
    /\ UNCHANGED <<assetVars, retry, timed>>

\* ------------------------------------------------------------------ Utilities.withFinally

\* A settled promise, with the number of calls of options.finally so far.
Settled(kind, value, calls) == [kind |-> kind, value |-> value, calls |-> calls]

\* The error the n-th call of options.finally throws.
FinallyError(n) == <<"error of finally", n>>

\* options.promise.then(...): a rejection passes through; on a result
\* options.finally() is called, and the promise rejects with what it throws
\* or resolves with the result.  throws[n] tells whether the n-th call throws.
ThenFinally(promise, throws) ==
    IF promise.kind = "rejected" THEN promise
    ELSE IF throws[promise.calls + 1]
         THEN Settled("rejected", FinallyError(promise.calls + 1), promise.calls + 1)
         ELSE Settled("resolved", promise.value, promise.calls + 1)

\* .catch(...): a result passes through; on an error options.finally() is
\* called, and the promise rejects with what it throws or with the error.
CatchFinally(promise, throws) ==
    IF promise.kind = "resolved" THEN promise
    ELSE IF throws[promise.calls + 1]
         THEN Settled("rejected", FinallyError(promise.calls + 1), promise.calls + 1)
         ELSE Settled("rejected", promise.value, promise.calls + 1)

WithFinally(promise, throws) == CatchFinally(ThenFinally(promise, throws), throws)

\* A call of withFinally with a promise that settles, up to the settling of
\* the promise it returns.
WithFinallyCall ==
    /\ UtilitiesIdle
    /\ \E kind \in {"resolved", "rejected"}, throws \in [1..2 -> BOOLEAN] :
          LET promise == Settled(kind, IF kind = "resolved" THEN <<"result">> ELSE <<"error">>, 0)
          IN util' = [op |-> "withFinally", promise |-> promise, throws |-> throws,
                      result |-> WithFinally(promise, throws)]
    /\ UNCHANGED <<assetVars, retry, timed>>

\* ------------------------------------------------------------------ Utilities.executeLifecycleCommand

\* What spawnSync returns: the exit status, null when the command did not
\* run to its end, and the error of a spawn that failed, which leaves no
\* exit status.
SpawnResults ==
    {r \in [status : {Undefined} \cup {Some(n) : n \in 0..2}, error : {Undefined, Some(<<"spawn error">>)}] : r.error.def => ~r.status.def}

\* Utilities._processResult(result): the error it throws, if any.
ProcessResult(result) ==
    IF result.error.def THEN result.error
    ELSE IF result.status.def /\ result.status.v # 0 THEN Some(<<"The command failed with exit code ", result.status.v>>)
    ELSE Undefined

\* The end of executeLifecycleCommand: the status when it is truthy, else
\* result.error or the unknown error is thrown.
StatusOrThrow(result) ==
    IF result.status.def /\ result.status.v # 0
    THEN [threw |-> FALSE, value |-> result.status.v, error |-> <<>>]
    ELSE [threw |-> TRUE, value |-> 0,
          error |-> IF result.error.def THEN result.error.v ELSE <<"An unknown error occurred.">>]

ExecuteLifecycleCommand(result, handleOutput) ==
    IF handleOutput /\ ProcessResult(result).def
    THEN [threw |-> TRUE, value |-> 0, error |-> ProcessResult(result).v]
    ELSE StatusOrThrow(result)

\* A call of executeLifecycleCommand, from the return of spawnSync on.
ExecuteLifecycleCommandCall ==
    /\ UtilitiesIdle
    /\ \E spawned \in SpawnResults, handleOutput \in BOOLEAN :
          util' = [op |-> "executeLifecycleCommand", spawned |-> spawned,
                   handleOutput |-> handleOutput,
                   result |-> ExecuteLifecycleCommand(spawned, handleOutput)]
    /\ UNCHANGED <<assetVars, retry, timed>>

UtilitiesNext ==
    \/ ExecuteCommandWithRetry
    \/ CommandSucceeds
    \/ CommandFails
    \/ RetryCallbackReturns
    \/ RetryCallbackThrows
    \/ RetryContinue
    \/ RetryUntilTimeout
    \/ Tick
    \/ FnReturns
    \/ FnThrows
    \/ TimedContinue
    \/ IsFileTimestampCurrentCall
    \/ UtilitiesContinue
    \/ CreateEnvironmentForRushCommandCall
    \/ ExecuteCommandInternal
    \/ SyncNpmrcCall
    \/ WithFinallyCall
    \/ ExecuteLifecycleCommandCall

UtilitiesSpec == Init /\ [][UtilitiesNext]_vars

\* fn is called again and again while retryUntilTimeout is in its loop, and
\* the clock does not stand still.
UtilitiesFairSpec ==
    UtilitiesSpec /\ WF_vars(FnReturns \/ FnThrows) /\ WF_vars(Tick)

\* ------------------------------------------------------------------ properties

Called == pc # "idle"
IsLocalized == call.op = "processLocalizedAsset"

\* How far the last call got.
ContentParsed == ret.stage \in {"reconstruct asset", "parse name", "reconstruct name", "return"}
ContentRendered == ret.stage \in {"parse name", "reconstruct name", "return"}
NameRendered == ret.stage = "return"

LocaleSet == {call.locales[i] : i \in DOMAIN call.locales}

\* The IReconstructedString values a render returned: one per locale for
\* _reconstructLocalized, one for _reconstructNonLocalized.
Rendered(r) ==
    IF IsLocalized THEN {r.result[l] : l \in DOMAIN r.result} ELSE {r.result}

\* The sum over the first n elements of the plan, Static ones excepted, of the
\* length of the text substituted minus the length of the placeholder.
RECURSIVE SumOfDeltas(_, _, _)
SumOfDeltas(series, reconstruction, n) ==
    IF n = 0 THEN 0
    ELSE SumOfDeltas(series, reconstruction, n - 1)
         + (IF series[n].kind = "static" THEN 0
            ELSE StrLen(reconstruction[n]) - series[n].size)

\* The size of rs is initialSize plus the deltas of the substituted elements,
\* which is also initialSize plus what the text gained over the original.
Accounted(series, original, initialSize, rs) ==
    /\ Len(rs.reconstruction) = Len(series)
    /\ rs.size = initialSize + SumOfDeltas(series, rs.reconstruction, Len(series))
    /\ rs.size = initialSize + StrLen(rs.source) - StrLen(original)

\* C1: size accounting law. Whenever _reconstructLocalized (for each locale)
\* or _reconstructNonLocalized has rendered a plan, of the asset source or of
\* the asset name, the size it reports is initialSize plus the sum over the
\* Localized and Dynamic elements of (length of the text substituted, after
\* escaping) - (length of the original placeholder); Static elements add zero.
C1_SizeAccounting ==
    /\ ContentRendered =>
         \A rs \in Rendered(ret.locals.reconstructedAsset) :
            Accounted(ret.locals.parsedAsset.reconstructionSeries, call.assetSource,
                      call.assetSize, rs)
    /\ NameRendered =>
         \A rs \in Rendered(ret.locals.reconstructedAssetName) :
            Accounted(ret.locals.parsedAssetName.reconstructionSeries, call.assetName,
                      StrLen(call.assetName), rs)

\* A localized render of a plan with a Localized and a Dynamic element whose
\* substituted lengths differ from the placeholders'.
C1_Witness ==
    /\ pc = "returned" /\ IsLocalized
    /\ \E i, j \in DOMAIN ret.locals.parsedAsset.reconstructionSeries :
          /\ ret.locals.parsedAsset.reconstructionSeries[i].kind = "localized"
          /\ ret.locals.parsedAsset.reconstructionSeries[j].kind = "dynamic"
    /\ \E l \in DOMAIN ret.result : ret.result[l].size # call.assetSize

\* The positions of the Localized elements of a plan.
LocalizedPositions(series) ==
    {i \in DOMAIN series : series[i].kind = "localized"}

\* The plan of the asset source and the texts rendered from it for locale l.
ContentPlan == ret.locals.parsedAsset.reconstructionSeries
ContentTexts(l) == ret.locals.reconstructedAsset.result[l].reconstruction
ContentRenderIssues == ret.locals.reconstructedAsset.issues

\* The issues of the content render that say a string is missing in locale l.
MissingIn(l) ==
    {k \in DOMAIN ContentRenderIssues :
        /\ ContentRenderIssues[k].type = "is missing in the locale"
        /\ ContentRenderIssues[k].locale = l}

\* A value with each double-quote and each apostrophe replaced by its escape,
\* one character at a time, the other characters kept in order.
RECURSIVE EscapedText(_)
EscapedText(v) ==
    IF v = <<>> THEN <<>>
    ELSE (CASE Head(v) = "\"" -> <<"\\", "u", "0", "0", "2", "2">>
            [] Head(v) = "'" -> <<"\\", "u", "0", "0", "2", "7">>
            [] OTHER -> <<Head(v)>>) \o EscapedText(Tail(v))

\* C2: with fillMissingTranslationStrings, the render of the asset source
\* completes, and for every Localized element and every requested locale for
\* which the element has no value, the text substituted is the escaped value
\* of the element for defaultLocale and no issue is recorded for that locale.
C2_FillWithDefault ==
    (IsLocalized /\ call.fillMissingTranslationStrings /\ ContentParsed) =>
        /\ ContentRendered
        /\ \A l \in LocaleSet : \A i \in LocalizedPositions(ContentPlan) :
              l \notin DOMAIN ContentPlan[i].values =>
                 /\ call.defaultLocale \in DOMAIN ContentPlan[i].values
                 /\ ContentTexts(l)[i] =
                       EscapedText(ContentPlan[i].values[call.defaultLocale])
                 /\ MissingIn(l) = {}

\* C3: without fillMissingTranslationStrings, for every requested locale the
\* render records one issue per Localized element of the plan that has no
\* value for the locale, naming the string, its file and the locale, and
\* substitutes the sentinel there; for an element that has a value for the
\* locale it records no issue and substitutes the escaped value.
C3_ReportMissing ==
    (IsLocalized /\ ~call.fillMissingTranslationStrings /\ ContentRendered) =>
        \A l \in LocaleSet :
           /\ Cardinality(MissingIn(l)) =
                 Cardinality({i \in LocalizedPositions(ContentPlan) :
                                 l \notin DOMAIN ContentPlan[i].values})
           /\ \A k \in MissingIn(l) : \E i \in LocalizedPositions(ContentPlan) :
                 /\ l \notin DOMAIN ContentPlan[i].values
                 /\ ContentRenderIssues[k] =
                       MissingLocaleIssue(ContentPlan[i].stringName,
                                          ContentPlan[i].locFilePath, l)
           /\ \A i \in LocalizedPositions(ContentPlan) :
                 ContentTexts(l)[i] =
                    IF l \in DOMAIN ContentPlan[i].values
                    THEN EscapedText(ContentPlan[i].values[l])
                    ELSE MISSING_STRING

\* A text whose placeholders all have label A or B.
OnlyLabelsAB(s) ==
    \A i \in DOMAIN s : MatchAt(s, i).found => MatchAt(s, i).label \in {"A", "B"}

\* C4: a call whose asset source and asset name hold only label-A and label-B
\* placeholders returns, whatever the string table, the locales and
\* fillMissingTranslationStrings are, and compilation.errors is then what it
\* was, with at most one error appended.
C4_NeverThrows ==
    (Called /\ OnlyLabelsAB(call.assetSource) /\ OnlyLabelsAB(call.assetName)) =>
        /\ pc = "returned"
        /\ \/ errors = call.compilationErrors
           \/ /\ Len(errors) = Len(call.compilationErrors) + 1
              /\ SubSeq(errors, 1, Len(call.compilationErrors)) = call.compilationErrors

\* The asset source and the asset name rendered for the one locale l.
ContentFor(l) ==
    ReconstructLocalized(ContentPlan, <<l>>, call.fillMissingTranslationStrings,
                         call.defaultLocale, call.assetSize).result[l]
NameFor(l) ==
    ReconstructLocalized(ret.locals.parsedAssetName.reconstructionSeries, <<l>>,
                         call.fillMissingTranslationStrings, call.defaultLocale,
                         StrLen(call.assetName)).result[l]

\* C5: when processLocalizedAsset returns, the keys of the returned map are
\* the requested locales, and the entry of each locale holds the filename
\* rendered for that locale with the source and the size rendered for that
\* locale.
C5_OneArtifactPerLocale ==
    (pc = "returned" /\ IsLocalized) =>
        /\ DOMAIN ret.result = LocaleSet
        /\ \A l \in LocaleSet :
              /\ ret.result[l].filename = NameFor(l).source
              /\ ret.result[l].source = ContentFor(l).source
              /\ ret.result[l].size = ContentFor(l).size

\* A call for two locales that recorded issues and whose two entries differ in
\* filename, in source and in size.
C5_Witness ==
    /\ pc = "returned" /\ IsLocalized
    /\ ret.issues # <<>>
    /\ \E l, m \in DOMAIN ret.result :
          /\ ret.result[l].filename # ret.result[m].filename
          /\ ret.result[l].source # ret.result[m].source
          /\ ret.result[l].size # ret.result[m].size

\* The issues of the four steps of a call, in the order of the steps.
IssuesInOrder ==
    ret.locals.parsedAsset.issues \o ret.locals.reconstructedAsset.issues
        \o ret.locals.parsedAssetName.issues \o ret.locals.reconstructedAssetName.issues

\* C6: a call that returns leaves compilation.errors as it was when the
\* content parse, the content render, the filename parse and the filename
\* render recorded no issue, and else appends one error that lists the issues
\* of the four steps in that order.
C6_IssueAggregation ==
    pc = "returned" =>
        errors = IF IssuesInOrder = <<>>
                 THEN call.compilationErrors
                 ELSE Append(call.compilationErrors, LocalizationError(IssuesInOrder))

\* A call that found an error on compilation.errors and in which each of the
\* four steps recorded an issue.
C6_Witness ==
    /\ pc = "returned"
    /\ call.compilationErrors # <<>>
    /\ ret.locals.parsedAsset.issues # <<>>
    /\ ret.locals.reconstructedAsset.issues # <<>>
    /\ ret.locals.parsedAssetName.issues # <<>>
    /\ ret.locals.reconstructedAssetName.issues # <<>>
    /\ Len(errors) = 2

\* !newValue of the entry of values for locale l.
HasText(values, l) == l \in DOMAIN values /\ values[l] # <<>>

\* C7: the text _reconstructLocalized substitutes for a Localized element
\* holds no double-quote and no apostrophe; when the element has a text for
\* the locale it is that text, and when it has none and the default locale's
\* value is filled in it is that value, with each double-quote replaced by the
\* six characters of its unicode escape (u0022 after a backslash), each
\* apostrophe by those of its own (u0027) and the other characters kept in
\* order.
C7_Escaping ==
    (IsLocalized /\ ContentRendered) =>
        \A l \in LocaleSet : \A i \in LocalizedPositions(ContentPlan) :
           /\ \A k \in DOMAIN ContentTexts(l)[i] : ContentTexts(l)[i][k] \notin {"\"", "'"}
           /\ HasText(ContentPlan[i].values, l) =>
                 ContentTexts(l)[i] = EscapedText(ContentPlan[i].values[l])
           /\ (/\ ~HasText(ContentPlan[i].values, l)
               /\ call.fillMissingTranslationStrings) =>
                 ContentTexts(l)[i] = EscapedText(ContentPlan[i].values[call.defaultLocale])

\* A render that substituted a value holding a double-quote and an apostrophe:
\* the text substituted is ten characters longer than the value.
C7_Witness ==
    /\ IsLocalized /\ ContentRendered
    /\ \E l \in LocaleSet : \E i \in LocalizedPositions(ContentPlan) :
          /\ HasText(ContentPlan[i].values, l)
          /\ \E j, k \in DOMAIN ContentPlan[i].values[l] :
                /\ ContentPlan[i].values[l][j] = "\""
                /\ ContentPlan[i].values[l][k] = "'"
          /\ Len(ContentTexts(l)[i]) = Len(ContentPlan[i].values[l]) + 10

\* A text in which PLACEHOLDER_REGEX matches nowhere.
NoPlaceholder(s) == \A i \in DOMAIN s : ~MatchAt(s, i).found

\* C8: the parse of an asset source that holds no placeholder gives a plan of
\* one Static element, the source, and no issue; every render of that plan
\* gives the source back, with the size the call was given.
C8_RoundTrip ==
    (Called /\ NoPlaceholder(call.assetSource)) =>
        /\ ContentRendered
        /\ ContentPlan = <<StaticElement(call.assetSource)>>
        /\ ret.locals.parsedAsset.issues = <<>>
        /\ ret.locals.reconstructedAsset.issues = <<>>
        /\ \A rs \in Rendered(ret.locals.reconstructedAsset) :
              rs.source = call.assetSource /\ rs.size = call.assetSize

\* A localized render for two locales of a source without placeholder that
\* holds the placeholder prefix.
C8_Witness ==
    /\ pc = "returned" /\ IsLocalized
    /\ NoPlaceholder(call.assetSource)
    /\ \E i \in DOMAIN call.assetSource : call.assetSource[i] = Prefix
    /\ Cardinality(DOMAIN ret.result) = 2
    /\ \A l \in DOMAIN ret.result : ret.result[l].source = call.assetSource

\* The positions of s at which a label-A placeholder starts whose serial number
\* is not in the string table.
UnknownSerials(s, plugin) ==
    {i \in DOMAIN s :
        /\ MatchAt(s, i).found
        /\ MatchAt(s, i).label = "A"
        /\ MatchAt(s, i).serial \notin DOMAIN plugin}

\* C9: the parse of the asset source records one 'Missing placeholder' issue
\* for each label-A placeholder whose serial number is not in the string
\* table, naming the placeholder, and the plan holds a Static element with
\* the text of the placeholder.
C9_LookupFailure ==
    ContentParsed =>
        /\ Cardinality({k \in DOMAIN ret.locals.parsedAsset.issues :
                           ret.locals.parsedAsset.issues[k].type = "Missing placeholder"})
              = Cardinality(UnknownSerials(call.assetSource, call.plugin))
        /\ \A i \in UnknownSerials(call.assetSource, call.plugin) :
              /\ \E k \in DOMAIN ret.locals.parsedAsset.issues :
                    ret.locals.parsedAsset.issues[k] =
                       MissingPlaceholderIssue(
                          SubSeq(call.assetSource, i, MatchAt(call.assetSource, i).end - 1))
              /\ \E k \in DOMAIN ContentPlan :
                    ContentPlan[k] =
                       StaticElement(
                          SubSeq(call.assetSource, i, MatchAt(call.assetSource, i).end - 1))

\* A text that holds the prefix, '_', a label other than A, B and C, '_' and a
\* digit.
HasUnknownLabel(s) ==
    \E i \in DOMAIN s :
        /\ i + 4 <= Len(s)
        /\ s[i] = Prefix /\ s[i + 1] = "_"
        /\ s[i + 2] \notin {"A", "B", "C", "_", "+"} \cup Digits
        /\ s[i + 3] = "_"
        /\ s[i + 4] \in Digits

\* C10: a call whose asset source holds a placeholder with a label other than
\* A, B and C throws 'Unexpected label'.
C10_UnknownLabel ==
    (Called /\ HasUnknownLabel(call.assetSource)) =>
        ret.threw /\ ret.error = "Unexpected label"

\* The positions of the Dynamic elements of a plan that come from a label-C
\* placeholder: those that carry a token.
JsonpPositions(series) ==
    {i \in DOMAIN series : series[i].kind = "dynamic" /\ series[i].token.def}

\* The renders of the asset source, each with the locale it was made for:
\* the requested locales for _reconstructLocalized, noStringsLocaleName for
\* _reconstructNonLocalized.
ContentRenders ==
    IF IsLocalized
    THEN {[locale |-> l, texts |-> ret.locals.reconstructedAsset.result[l].reconstruction] :
             l \in DOMAIN ret.locals.reconstructedAsset.result}
    ELSE {[locale |-> call.noStringsLocaleName,
           texts |-> ret.locals.reconstructedAsset.result.reconstruction]}

\* The string literal of a name that holds no quote and no backslash.
Quoted(name) == <<"\"">> \o name \o <<"\"">>

NoneMarked == \A id \in DOMAIN call.chunk : ~call.chunk[id]
AllMarked == \A id \in DOMAIN call.chunk : call.chunk[id]

\* A text that starts as the indexing expression does.
IsIndexing(text) == Len(text) >= 2 /\ text[1] = "(" /\ text[2] = "["

RECURSIVE LiteralEnd(_, _)
LiteralEnd(t, j) ==
    IF j > Len(t) \/ t[j] = "\"" THEN j
    ELSE LiteralEnd(t, IF t[j] = "\\" THEN j + 2 ELSE j + 1)

\* The two strings of the array literal an indexing expression starts with:
\* e is the end of the first, which starts at position 4.
SecondAfter(t, e) == SubSeq(t, e + 3, LiteralEnd(t, e + 3) - 1)
ArrayOf(t) == <<SubSeq(t, 4, LiteralEnd(t, 4) - 1), SecondAfter(t, LiteralEnd(t, 4))>>

\* The positions of t at which the object literal has the key id.
KeyPositions(t, id) ==
    {q \in 1..(Len(t) - 4) :
        /\ t[q] = "\"" /\ t[q + 1] = DigitSeq[id + 1] /\ t[q + 2] = "\""
        /\ t[q + 3] = ":" /\ t[q + 4] \in {"0", "1"}
        /\ \E b \in 1..(q - 1) : t[b] = "{"}

\* The value of the indexing expression t when its index variable is id:
\* the element of the array at the index the object gives for id; no value
\* when the object has not exactly one entry for id.
ValueAt(t, keys) ==
    IF Cardinality(keys) # 1 THEN Undefined
    ELSE Some(ArrayOf(t)[IF t[(CHOOSE q \in keys : TRUE) + 4] = "0" THEN 1 ELSE 2])
Evaluated(t, id) == ValueAt(t, KeyPositions(t, id))

\* The variable the expression indexes the object with: the text between "}["
\* and the closing "]]".
IndexVariable(t) ==
    SubSeq(t, (CHOOSE b \in 1..Len(t) : t[b] = "}") + 2, Len(t) - 2)

\* C12: when some async chunk is marked and some is not, the expression
\* rendered for a label-C placeholder indexes with the placeholder's token
\* and, for every async chunk id, has the value of the locale rendered when
\* the chunk is marked and of noStringsLocaleName when it is not.
C12_MixedMapping ==
    (ContentRendered /\ ~NoneMarked /\ ~AllMarked) =>
        \A r \in ContentRenders : \A i \in JsonpPositions(ContentPlan) :
           /\ IndexVariable(r.texts[i]) = ContentPlan[i].token.v
           /\ \A id \in DOMAIN call.chunk :
                 Evaluated(r.texts[i], id) =
                    Some(IF call.chunk[id] THEN r.locale ELSE call.noStringsLocaleName)

\* A localized render for two locales in a chunk with a marked and an
\* unmarked async chunk: the expression has the two values.
C12_Witness ==
    /\ pc = "returned" /\ IsLocalized
    /\ Cardinality(LocaleSet) = 2
    /\ JsonpPositions(ContentPlan) # {}
    /\ \A l \in LocaleSet : \A i \in JsonpPositions(ContentPlan) :
          /\ IsIndexing(ContentTexts(l)[i])
          /\ \E id \in DOMAIN call.chunk : Evaluated(ContentTexts(l)[i], id) = Some(l)
          /\ \E id \in DOMAIN call.chunk :
                Evaluated(ContentTexts(l)[i], id) = Some(call.noStringsLocaleName)

\* The locale names the value functions of the last call are invoked with.
RenderLocales == IF IsLocalized THEN LocaleSet ELSE {call.noStringsLocaleName}

\* C13: when some async chunk is marked and some is not, the asset source
\* has a label-C placeholder and a locale to render for is the empty string
\* (a requested locale of processLocalizedAsset, noStringsLocaleName of
\* processNonLocalizedAsset), the call throws in the render of the asset
\* source; the error is 'Missing locale name.', unless a Localized element of
\* the plan made the render throw before the function was invoked.
C13_MissingLocaleName ==
    (/\ ContentParsed
     /\ ~NoneMarked /\ ~AllMarked
     /\ JsonpPositions(ContentPlan) # {}
     /\ EmptyLocale \in RenderLocales) =>
        /\ pc = "threw"
        /\ ret.stage = "reconstruct asset"
        /\ \/ ret.error = "Missing locale name."
           \/ /\ LocalizedPositions(ContentPlan) # {}
              /\ ret.error = "TypeError: Cannot read property 'replace' of undefined"

\* A call of processLocalizedAsset for a locale and the empty locale that
\* threw 'Missing locale name.'.
C13_Witness ==
    /\ pc = "threw" /\ IsLocalized
    /\ ret.error = "Missing locale name."
    /\ call.locales = <<LocaleE, EmptyLocale>>
    /\ ~NoneMarked /\ ~AllMarked

\* A text that holds a label-C placeholder.
HasJsonpPlaceholder(s) ==
    \E i \in DOMAIN s : MatchAt(s, i).found /\ MatchAt(s, i).label = "C"

\* C14: a call whose asset name holds a label-C placeholder throws, whatever
\* the requested locales are.
C14_JsonpInFilename ==
    (Called /\ HasJsonpPlaceholder(call.assetName)) => pc = "threw"

\* The issues of a render that name the string and the file of element e as
\* not expected in the asset.
NotExpectedFor(issues, e) ==
    {k \in DOMAIN issues : issues[k] = NotExpectedIssue(e.stringName, e.locFilePath)}

\* C15: the render of the asset source by _reconstructNonLocalized records
\* as many issues as the plan has Localized elements, each naming the string
\* and the file of such an element, and substitutes
\* '-- NOT EXPECTED TO BE LOCALIZED --' for each of them, whatever its values.
C15_LeakageDetection ==
    (Called /\ ~IsLocalized /\ ContentRendered) =>
        /\ Len(ContentRenderIssues) = Cardinality(LocalizedPositions(ContentPlan))
        /\ \A k \in DOMAIN ContentRenderIssues :
              \E i \in LocalizedPositions(ContentPlan) :
                 ContentRenderIssues[k] =
                    NotExpectedIssue(ContentPlan[i].stringName, ContentPlan[i].locFilePath)
        /\ \A i \in LocalizedPositions(ContentPlan) :
              /\ NotExpectedFor(ContentRenderIssues, ContentPlan[i]) # {}
              /\ ret.locals.reconstructedAsset.result.reconstruction[i] =
                    <<"-", "-", " ", "N", "O", "T", " ", "E", "X", "P", "E", "C", "T",
                      "E", "D", " ", "T", "O", " ", "B", "E", " ", "L", "O", "C", "A",
                      "L", "I", "Z", "E", "D", " ", "-", "-">>

\* A call of processNonLocalizedAsset whose plan has two Localized elements
\* that carry values: two issues.
C15_Witness ==
    /\ pc = "returned" /\ ~IsLocalized
    /\ Cardinality(LocalizedPositions(ContentPlan)) = 2
    /\ Len(ContentRenderIssues) = 2
    /\ \A i \in LocalizedPositions(ContentPlan) : DOMAIN ContentPlan[i].values # {}

\* The locale sets, in every iteration order, that hold the locale l.
LocaleSeqsWith(l) ==
    {ls \in LocaleSeqs \cup EmptyLocaleSeqs : \E k \in DOMAIN ls : ls[k] = l}

\* The render r, if it returned, has for locale l the text and the size rs.
SameFor(r, l, rs) ==
    r.threw \/ (r.result[l].source = rs.source /\ r.result[l].size = rs.size)

\* C16: the text and the size _reconstructLocalized gave for a locale of the
\* asset source are those every render of the same plan, with the same
\* fillMissingTranslationStrings, defaultLocale and initialSize, gives for
\* that locale, for every locale set that holds the locale and every
\* iteration order of it, whenever that render returns.
C16_LocaleIndependence ==
    (IsLocalized /\ ContentRendered) =>
        \A l \in LocaleSet : \A ls \in LocaleSeqsWith(l) :
           SameFor(ReconstructLocalized(ContentPlan, ls,
                                        call.fillMissingTranslationStrings,
                                        call.defaultLocale, call.assetSize),
                   l, ret.locals.reconstructedAsset.result[l])

\* A render for two locales of a plan with a Localized element, which gave
\* the two locales different texts and sizes, none the size of the source.
C16_Witness ==
    /\ pc = "returned" /\ IsLocalized
    /\ Len(call.locales) = 2
    /\ LocalizedPositions(ContentPlan) # {}
    /\ ret.result[call.locales[1]].source # ret.result[call.locales[2]].source
    /\ ret.result[call.locales[1]].size # ret.result[call.locales[2]].size
    /\ ret.result[call.locales[1]].size # call.assetSize
    /\ ret.result[call.locales[2]].size # call.assetSize

\* What the last call would have left behind as the first call ever made.
AsFirstCall ==
    IF IsLocalized THEN ProcessLocalized(call, 0) ELSE ProcessNonLocalized(call, 0)

\* The outcome r has the plans, the issues, the error and the artifacts of
\* the last call.
SameOutcome(r) ==
    /\ r.threw = ret.threw /\ r.error = ret.error
    /\ r.locals = ret.locals
    /\ r.issues = ret.issues
    /\ r.result = ret.result /\ r.single = ret.single
    /\ r.errors = ret.errors

\* C17: whatever calls came before, also calls that threw inside a parse, a
\* call has the plans, issues, error and artifacts it would have had as the
\* first call ever made with its options.
C17_NoCarriedState == Called => SameOutcome(AsFirstCall)

\* C18: for every requested locale and every Localized element of the plan
\* of the asset source whose values have an entry for the locale, whatever
\* its text, the text substituted is that entry, escaped, and the render
\* records no issue that names the locale.
C18_EntryIsUsed ==
    (IsLocalized /\ ContentRendered) =>
        \A l \in LocaleSet : \A i \in LocalizedPositions(ContentPlan) :
           l \in DOMAIN ContentPlan[i].values =>
              /\ ContentTexts(l)[i] = EscapedText(ContentPlan[i].values[l])
              /\ \A k \in DOMAIN ContentRenderIssues : ContentRenderIssues[k].locale # l

\* The positions of s at which a label-C placeholder starts.
JsonpMatches(s) ==
    {i \in DOMAIN s : MatchAt(s, i).found /\ MatchAt(s, i).label = "C"}

\* The token the element of the label-C match m is to carry: none when the
\* placeholder has no +token+ segment, else the text between the two "+".
TokenOf(m) ==
    IF m.token.def THEN Some(SubSeq(m.token.v, 2, Len(m.token.v) - 1)) ELSE Undefined

\* C19: the parse of an asset source returns for every label-C placeholder,
\* with or without a +token+ segment, and the plan holds for it a Dynamic
\* element whose value function is the one _getJsonpFunction returned, whose
\* size is the length of the placeholder and whose token is the text between
\* the two "+", or absent when there is no segment.
C19_OptionalToken ==
    (Called /\ JsonpMatches(call.assetSource) # {}) =>
        /\ ContentParsed
        /\ \A i \in JsonpMatches(call.assetSource) :
              \E k \in DOMAIN ContentPlan :
                 ContentPlan[k] =
                    DynamicElement(
                       GetJsonpFunction(call.chunk, call.noStringsLocaleName),
                       StrLen(SubSeq(call.assetSource, i,
                                     MatchAt(call.assetSource, i).end - 1)),
                       TokenOf(MatchAt(call.assetSource, i)))

\* The attempts made so far: the calls of executeCommand, failed or not.
Attempts == {i \in DOMAIN retry.events : retry.events[i] \in Causes \cup {"succeeded"}}

\* The calls of retryCallback that ended so far.
CallbackCalls == {i \in DOMAIN retry.events : retry.events[i] = "retryCallback"}

\* What happened last in the call, "" when nothing happened yet.
LastEvent == IF retry.events = <<>> THEN "" ELSE retry.events[Len(retry.events)]

\* The call of executeCommandWithRetry returned or threw.
RetryEnded == retry.pc \in {"returned", "threw"}

\* C20: executeCommandWithRetry with maxAttempts < 1 throws before running
\* the command.  With maxAttempts >= 1 it runs the command at least once and
\* at most maxAttempts times and nothing follows an attempt that succeeds.
\* As long as no call of retryCallback throws: when every attempt fails the
\* command is run exactly maxAttempts times and the error of the last attempt
\* is thrown again, and retryCallback, when one is given, is called exactly
\* once between a failed attempt and the next one (attempts made minus one
\* times, none when it is not given) and never after the last attempt.  When
\* a call of retryCallback throws, its error leaves executeCommandWithRetry at
\* once: no further attempt is made, fewer than maxAttempts were made, and
\* retryCallback was called once for each of them.
C20_Retry ==
    /\ (retry.pc # "idle" /\ retry.maxAttempts < 1) =>
          /\ retry.pc = "threw"
          /\ retry.error = MaxAttemptsError
          /\ retry.events = <<>>
    /\ (retry.pc # "idle" /\ retry.maxAttempts >= 1) =>
          /\ Cardinality(Attempts) <= retry.maxAttempts
          /\ RetryEnded => Cardinality(Attempts) >= 1
          /\ \A i \in DOMAIN retry.events :
                retry.events[i] = "succeeded" => i = Len(retry.events)
          /\ retry.pc = "returned" <=> LastEvent = "succeeded"
          /\ \A i \in CallbackCalls :
                retry.retryCallback /\ i > 1 /\ retry.events[i - 1] \in Causes
          /\ \A i \in DOMAIN retry.events :
                (retry.events[i] \in Causes /\ i < Len(retry.events)) =>
                    IF retry.retryCallback
                    THEN /\ retry.events[i + 1] = "retryCallback"
                         /\ i + 1 < Len(retry.events) => i + 2 \in Attempts
                    ELSE i + 1 \in Attempts
          /\ (retry.pc = "threw" /\ retry.error # CallbackError) =>
                /\ Cardinality(Attempts) = retry.maxAttempts
                /\ LastEvent \in Causes
                /\ retry.error = CommandError(retry.maxAttempts, LastEvent)
          /\ (RetryEnded /\ retry.error # CallbackError) =>
                /\ LastEvent # "retryCallback"
                /\ Cardinality(CallbackCalls) =
                      IF retry.retryCallback THEN Cardinality(Attempts) - 1 ELSE 0
          /\ (retry.pc = "threw" /\ retry.error = CallbackError) =>
                /\ LastEvent = "retryCallback"
                /\ Cardinality(Attempts) < retry.maxAttempts
                /\ Cardinality(CallbackCalls) = Cardinality(Attempts)

\* A call with maxAttempts = 3 and a retryCallback made three attempts that
\* all failed, called retryCallback twice, and threw the error of the third.
C20_Witness ==
    /\ retry.pc = "threw"
    /\ retry.maxAttempts = 3
    /\ retry.retryCallback
    /\ retry.error.attempt = 3
    /\ Cardinality(Attempts) = 3
    /\ Cardinality(CallbackCalls) = 2

\* The statement without the condition on retryCallback: whenever a call
\* with maxAttempts >= 1 ended, retryCallback was called attempts made minus
\* one times and not after the last attempt, and a call that threw made
\* maxAttempts attempts and threw the error of the last one.
C20_Unconditional ==
    (RetryEnded /\ retry.maxAttempts >= 1) =>
        /\ LastEvent # "retryCallback"
        /\ retry.retryCallback => Cardinality(CallbackCalls) = Cardinality(Attempts) - 1
        /\ retry.pc = "threw" =>
              /\ Cardinality(Attempts) = retry.maxAttempts
              /\ retry.error.attempt = retry.maxAttempts

\* C21, safety: a call of retryUntilTimeout that ended called fn at least
\* once; fn returned at most once and then the call returned, at once, the
\* value of that call of fn; the loop goes on after a failed call only when
\* the time elapsed since the start, read at that failure, is at most
\* maxWaitTimeMs; and the call throws only getTimeoutError of the error of
\* the call of fn that failed last, with more than maxWaitTimeMs elapsed when
\* it failed.
TimedSafety ==
    /\ timed.pc \in {"returned", "threw"} => timed.calls >= 1
    /\ timed.returns <= 1
    /\ timed.pc = "returned" <=> timed.returns = 1
    /\ timed.pc = "returned" => timed.result = FnResult(timed.calls)
    /\ timed.looped <=> timed.calls - timed.returns >= 1
    /\ (timed.pc = "try" /\ timed.looped) =>
          timed.currentTime - timed.startTime <= timed.maxWaitTimeMs
    /\ timed.pc = "threw" =>
          /\ timed.currentTime - timed.startTime > timed.maxWaitTimeMs
          /\ timed.error = GetTimeoutError(FnError(timed.calls))
          /\ timed.returns = 0

\* C21: retryUntilTimeout calls fn at least once for every maxWaitTimeMs,
\* returns the result of the first call of fn that does not throw and calls
\* fn no more after it, retries after a failed call only if the time elapsed
\* since the start, read at that failure, does not exceed maxWaitTimeMs, and
\* otherwise throws getTimeoutError of the error of that failed call; when
\* the clock advances the call ends, so when fn always throws it ends with
\* that timeout error.
C21_RetryUntilTimeout ==
    /\ []TimedSafety
    /\ [][timed.pc \in {"returned", "threw"} => timed'.calls \in {timed.calls, 0}]_vars
    /\ (timed.pc = "try") ~> (timed.pc = "threw" \/ timed.returns = 1)

\* A call with maxWaitTimeMs = 2 threw the timeout error after fn failed at
\* least three times, the last time with more than 2 elapsed.
C21_Witness ==
    /\ timed.pc = "threw"
    /\ timed.maxWaitTimeMs = 2
    /\ timed.calls >= 3
    /\ timed.error = GetTimeoutError(FnError(timed.calls))

\* C22: isFileTimestampCurrent returns true if and only if outputFilename
\* exists, every input file exists, and the last-modified time of the output
\* is more recent than that of every input file; it returns false if any of
\* the files does not exist.
C22_TimestampCurrent ==
    util.op = "isFileTimestampCurrent" =>
        (util.current <=>
            /\ util.fileSystem[util.outputFilename].exists
            /\ \A i \in DOMAIN util.inputFilenames :
                  /\ util.fileSystem[util.inputFilenames[i]].exists
                  /\ util.fileSystem[util.outputFilename].mtime >
                        util.fileSystem[util.inputFilenames[i]].mtime)

\* The last call was one of _createEnvironmentForRushCommand; the environment
\* it copied from; and whether a folder or a directory was given.
CreatedEnvironment == util.op = "_createEnvironmentForRushCommand"
InitialPairs ==
    IF util.options.initialEnvironment.def THEN util.options.initialEnvironment.v
    ELSE util.processEnv
Given(opt) == opt.def /\ opt.v # <<>>

\* The names of the initial environment the platform takes for the given one.
SameNames(name) ==
    {i \in DOMAIN InitialPairs :
        IF util.platform = "win32"
        THEN ToUpperCase(InitialPairs[i][1]) = ToUpperCase(name)
        ELSE InitialPairs[i][1] = name}

\* The PATH the initial environment holds, <<>> when it holds none.
InheritedPath ==
    IF SameNames(PATH) = {} THEN <<>>
    ELSE InitialPairs[CHOOSE i \in SameNames(PATH) : TRUE][2]

\* The entries of a PATH: the texts between the delimiters; none for the
\* empty text.
RECURSIVE EntriesFrom(_, _, _)
EntriesFrom(text, delimiter, current) ==
    IF text = <<>> THEN <<current>>
    ELSE IF Head(text) = delimiter THEN <<current>> \o EntriesFrom(Tail(text), delimiter, <<>>)
    ELSE EntriesFrom(Tail(text), delimiter, Append(current, Head(text)))
Entries(text) == IF text = <<>> THEN <<>> ELSE EntriesFrom(text, Delimiter(util.platform), <<>>)

\* The bin folders the path options of the call ask for.
ProjectBinAsked ==
    /\ util.options.pathOptions.def
    /\ util.options.pathOptions.v.includeProjectBin
    /\ Given(util.options.pathOptions.v.projectRoot)
RepoBinAsked ==
    /\ util.options.pathOptions.def
    /\ util.options.pathOptions.v.includeRepoBin
    /\ Given(util.options.pathOptions.v.commonTempFolder)
AskedBins ==
    (IF ProjectBinAsked THEN <<util.options.pathOptions.v.projectRoot.v \o <<"/node_modules/.bin">>>> ELSE <<>>)
    \o (IF RepoBinAsked THEN <<util.options.pathOptions.v.commonTempFolder.v \o <<"/node_modules/.bin">>>> ELSE <<>>)

\* C23: in the environment _createEnvironmentForRushCommand builds, the
\* entries of PATH are: <project root>/node_modules/.bin when includeProjectBin
\* is set with a project root, then <common temp>/node_modules/.bin when
\* includeRepoBin is set with a common temp folder, then the entries of the
\* inherited PATH in their order and nothing else; so with both set the
\* project's entry comes before the repo's and both before every inherited
\* entry, with one set only that entry is prepended, and when the inherited
\* PATH was empty or unset the result ends with no delimiter.
C23_PathPrecedence ==
    (CreatedEnvironment /\ AskedBins # <<>>) =>
        /\ PATH \in DOMAIN util.result
        /\ Entries(util.result[PATH]) = AskedBins \o Entries(InheritedPath)
        /\ util.result[PATH][Len(util.result[PATH])] # Delimiter(util.platform)

\* Both folders were asked for and the inherited PATH has two entries: the
\* PATH built has four.
C23_Witness ==
    /\ CreatedEnvironment
    /\ ProjectBinAsked /\ RepoBinAsked
    /\ Len(Entries(InheritedPath)) = 2
    /\ Len(Entries(util.result[PATH])) = 4

\* The environment holds no variable of NPM's configuration.
NoNpmConfig(environment) == \A k \in DOMAIN environment : k[1] # "NPM_CONFIG_"

\* The variables of the given pairs, other than INIT_CWD and those of NPM's
\* configuration, by the names the platform takes them for.
OtherVariables(platform, pairs) ==
    {i \in DOMAIN pairs :
        /\ NormalizedKey(platform, pairs[i][1]) # INIT_CWD
        /\ NormalizedKey(platform, pairs[i][1])[1] # "NPM_CONFIG_"}

\* Every such variable is in the environment with its value, but for the
\* ones named in except.
Carries(platform, pairs, environment, except) ==
    \A i \in OtherVariables(platform, pairs) :
        NormalizedKey(platform, pairs[i][1]) \notin except =>
            /\ NormalizedKey(platform, pairs[i][1]) \in DOMAIN environment
            /\ environment[NormalizedKey(platform, pairs[i][1])] = pairs[i][2]

\* INIT_CWD is in the environment if and only if initCwd is given, with
\* that value.
InitCwdAsGiven(environment, initCwd) ==
    /\ INIT_CWD \in DOMAIN environment <=> Given(initCwd)
    /\ Given(initCwd) => environment[INIT_CWD] = initCwd.v

\* The last call was one of _executeCommandInternal, and the environment it
\* sanitises when it does.
Spawned == util.op = "_executeCommandInternal"
CallerPairs == IF util.environment.def THEN util.environment.v ELSE util.processEnv

\* What the claim says of the two functions but for the variables named
\* in except.
Sanitising(except) ==
    /\ CreatedEnvironment =>
          /\ NoNpmConfig(util.result)
          /\ InitCwdAsGiven(util.result, util.options.initCwd)
          /\ Carries(util.platform, InitialPairs, util.result, except)
    /\ (Spawned /\ ~util.keepEnvironment) =>
          /\ NoNpmConfig(util.childEnv)
          /\ INIT_CWD \notin DOMAIN util.childEnv
          /\ Carries(util.platform, CallerPairs, util.childEnv, {})
    /\ (Spawned /\ util.keepEnvironment) =>
          util.childEnv = AsObject(CallerPairs, 1, <<>>)

\* C28: the environment built by _createEnvironmentForRushCommand contains
\* no variable whose name begins with NPM_CONFIG_, contains INIT_CWD if and
\* only if options.initCwd is given (and not empty) and then with exactly that
\* value, never the inherited one, and carries every other variable of the
\* initial environment with its value unchanged, except PATH when the path
\* options prepend a bin folder to it; executeCommand hands the caller's
\* environment to the child as it is when keepEnvironment is true and
\* sanitised in this way, with no INIT_CWD, when it is not.
C28_Sanitised == Sanitising(IF AskedBins # <<>> THEN {PATH} ELSE {})

\* An initial environment with INIT_CWD, a variable of NPM's configuration
\* and HOME gave, with initCwd given, an environment with the given INIT_CWD
\* and HOME only.
C28_Witness ==
    /\ CreatedEnvironment
    /\ Given(util.options.initCwd)
    /\ {InitialPairs[i][1] : i \in DOMAIN InitialPairs} = {INIT_CWD, <<"NPM_CONFIG_", "REGISTRY">>, <<"HOME">>}
    /\ DOMAIN util.result = {INIT_CWD, <<"HOME">>}

\* The statement with no exception: every other variable, PATH too, keeps
\* its value.
C28_EveryOtherVariable == Sanitising({})

\* The last call was one of syncNpmrc.
Synced == util.op = "syncNpmrc"

\* The lines of a text whose lines end with the given end of line: the
\* texts between its occurrences.
RECURSIVE LinesOf(_, _, _)
LinesOf(text, eol, current) ==
    IF text = <<>> THEN <<current>>
    ELSE IF Len(text) >= Len(eol) /\ SubSeq(text, 1, Len(eol)) = eol
         THEN <<current>> \o LinesOf(SubSeq(text, Len(eol) + 1, Len(text)), eol, <<>>)
         ELSE LinesOf(Tail(text), eol, Append(current, Head(text)))

\* A text without white space at its ends.
Trimmed(s) == s = <<>> \/ (~IsSpace(s[1]) /\ ~IsSpace(s[Len(s)]))

\* The line is the text t without the white space at its ends.
IsTrimOf(line, t) ==
    /\ Trimmed(line)
    /\ \E i \in 0..Len(t) : \E j \in i..Len(t) :
          /\ SubSeq(t, i + 1, j) = line
          /\ \A k \in (1..i) \cup ((j + 1)..Len(t)) : IsSpace(t[k])

\* The line references a ${NAME} token, NAME of one character or more
\* without "}", whose variable is not set or empty.
ReferencesMissing(line, env) ==
    \E i \in DOMAIN line : \E j \in DOMAIN line :
        /\ j >= i + 3
        /\ line[i] = "$" /\ line[i + 1] = "{" /\ line[j] = "}"
        /\ \A k \in (i + 2)..(j - 1) : line[k] # "}"
        /\ LET value == ProcessEnv(env, SubSeq(line, i + 2, j - 1))
           IN ~value.def \/ value.v = <<>>

\* A line of the target, and what follows its first symbol.
LineOrRest(line) == {line} \cup (IF line = <<>> THEN {} ELSE {Tail(line)})

\* C24: when the source .npmrc exists, syncNpmrc writes the target .npmrc
\* with one line for each line of the source, in order; each is the trimmed
\* source line, after the text "; MISSING ENVIRONMENT VARIABLE: " if and only
\* if the line references at least one ${NAME} token whose environment
\* variable is undefined or empty.  When the source does not exist, an
\* existing target is deleted and an absent target stays absent.
C24_SyncNpmrc ==
    Synced =>
        IF util.source.def
        THEN /\ util.result.def
             /\ LET sourceLines == LinesOf(util.source.v, <<"\n">>, <<>>)
                    targetLines == LinesOf(util.result.v, EOL(util.platform), <<>>)
                IN /\ Len(targetLines) = Len(sourceLines)
                   /\ \A i \in DOMAIN sourceLines :
                         \E line \in LineOrRest(targetLines[i]) :
                            /\ IsTrimOf(line, sourceLines[i])
                            /\ IF ReferencesMissing(line, util.env)
                               THEN targetLines[i] = <<"; MISSING ENVIRONMENT VARIABLE: ">> \o line
                               ELSE targetLines[i] = line
        ELSE ~util.result.def

\* A source of two lines, the first with a token of a variable that is set,
\* the second with one of a variable that is not: the target has the first
\* line as it is and the second after the text.
C24_Witness ==
    /\ Synced
    /\ util.source = Some(<<"$", "{", "B", "}", "\n", "$", "{", "A", "}">>)
    /\ util.env.B.def /\ ~util.env.A.def
    /\ util.platform = "win32"
    /\ util.result = Some(<<"$", "{", "B", "}", "\r", "\n", "; MISSING ENVIRONMENT VARIABLE: ", "$", "{", "A", "}">>)

\* C29: withFinally calls the finally callback exactly once whatever the
\* promise does and also when the callback throws; the promise it returns
\* resolves with the result when the promise resolved and the callback
\* returned, rejects with the error when the promise rejected and the
\* callback returned, and rejects with the callback's error when the
\* callback threw.
C29_FinallyOnce ==
    util.op = "withFinally" =>
        /\ util.result.calls = 1
        /\ IF util.throws[1]
           THEN util.result.kind = "rejected" /\ util.result.value[1] = "error of finally"
           ELSE util.result = Settled(util.promise.kind, util.promise.value, 1)

\* C30: executeLifecycleCommand returns the exit status of the command
\* whenever the command ran to its end without a spawn error, 0 too, and
\* throws only when the spawn failed or, with handleOutput, when the status
\* is not 0.
C30_ExitStatus ==
    util.op = "executeLifecycleCommand" =>
        LET failed == \/ util.spawned.error.def
                      \/ ~util.spawned.status.def
                      \/ util.handleOutput /\ util.spawned.status.v # 0
        IN /\ util.result.threw <=> failed
           /\ ~failed => util.result.value = util.spawned.status.v

\* The placeholder matches of s from position i on, left to right, none
\* overlapping: what a scan that starts at the start of s finds.
RECURSIVE MatchesFrom(_, _)
MatchesFrom(s, i) ==
    IF ~FirstMatchFrom(s, i).found THEN <<>>
    ELSE <<FirstMatchFrom(s, i)>> \o MatchesFrom(s, FirstMatchFrom(s, i).end)

\* The i-th gap of s, i from 0: the text before the first match, between two
\* matches, or after the last.
Gap(s, ms, i) ==
    SubSeq(s, IF i = 0 THEN 1 ELSE ms[i].end,
              IF i = Len(ms) THEN Len(s) ELSE ms[i + 1].start - 1)

\* The element stands for the match m of s: a Localized or Dynamic element of
\* the size of the placeholder, of the kind of its label, or the Static
\* element of the placeholder itself when its serial number is not known.
StandsFor(element, s, m) ==
    \/ /\ element.kind = "static"
       /\ m.label = "A"
       /\ element.staticString = SubSeq(s, m.start, m.end - 1)
    \/ /\ element.kind = (IF m.label = "A" THEN "localized" ELSE "dynamic")
       /\ element.size = StrLen(SubSeq(s, m.start, m.end - 1))

\* The lengths of the Static texts and the sizes of the other elements of
\* the first n elements, summed.
RECURSIVE SeriesLength(_, _)
SeriesLength(series, n) ==
    IF n = 0 THEN 0
    ELSE SeriesLength(series, n - 1)
         + (IF series[n].kind = "static" THEN StrLen(series[n].staticString)
            ELSE series[n].size)

\* The plan mirrors the source s whose matches are ms.
Mirrors(series, s, ms) ==
    /\ Len(series) = 2 * Len(ms) + 1
    /\ \A i \in 0..Len(ms) : series[2 * i + 1] = StaticElement(Gap(s, ms, i))
    /\ \A i \in 1..Len(ms) : StandsFor(series[2 * i], s, ms[i])
    /\ SeriesLength(series, Len(series)) = StrLen(s)

\* The asset name was parsed too.
NameParsed == ret.stage \in {"reconstruct name", "return"}
NamePlan == ret.locals.parsedAssetName.reconstructionSeries

\* C25: the plan parsed from a source text with n placeholder matches has
\* exactly 2n+1 elements; the elements at the even positions, counted from 0,
\* are Static and hold in document order the gaps of the source before,
\* between and after the matches; the element at position 2i+1 stands for the
\* i-th match; and the lengths of the Static texts plus the sizes of the
\* Localized and Dynamic elements sum to the length of the source.
C25_PlanOrdering ==
    /\ (Called /\ ContentParsed) =>
          Mirrors(ContentPlan, call.assetSource, MatchesFrom(call.assetSource, 1))
    /\ (Called /\ NameParsed) =>
          Mirrors(NamePlan, call.assetName, MatchesFrom(call.assetName, 1))

\* The renders of the asset name, each with the locale it was made for.
NameRenders ==
    IF IsLocalized
    THEN {[locale |-> l, texts |-> ret.locals.reconstructedAssetName.result[l].reconstruction] :
             l \in DOMAIN ret.locals.reconstructedAssetName.result}
    ELSE {[locale |-> call.noStringsLocaleName,
           texts |-> ret.locals.reconstructedAssetName.result.reconstruction]}

\* In each of the renders, the text at the place of every label-B match of
\* ms is the locale of the render.
LocaleNamesReplaced(renders, ms) ==
    \A r \in renders : \A i \in DOMAIN ms :
        ms[i].label = "B" => (Len(r.texts) >= 2 * i /\ r.texts[2 * i] = r.locale)

\* C26: a label-B placeholder of the asset source or of the asset name is
\* replaced, in every render, by exactly the name of the locale rendered for
\* by processLocalizedAsset and by noStringsLocaleName by
\* processNonLocalizedAsset, whatever the marking of the async chunks and
\* whatever token or serial digits the placeholder has.
C26_LocaleName ==
    /\ (Called /\ ContentRendered) =>
          LocaleNamesReplaced(ContentRenders, MatchesFrom(call.assetSource, 1))
    /\ (Called /\ NameRendered) =>
          LocaleNamesReplaced(NameRenders, MatchesFrom(call.assetName, 1))

\* The asset name as rendered for locale l by the call.
NameRenderedFor(l) == ret.locals.reconstructedAssetName.result[l]

====
